---------------------------- MODULE Spec2Model ----------------------------
(***************************************************************************)
(* A model of the CORS relay worker (the module worker `fetch` handler,    *)
(* getConfig, isListedInWhitelist, shouldStreamResponse).                  *)
(*                                                                         *)
(* JavaScript strings are TLA+ strings; TLC evaluates Len, SubSeq and \o   *)
(* on them, so prefix tests, substring search and splitting are computed   *)
(* character by character.  `null` is the string NULL, which is no value   *)
(* any header, query string or URL of the model takes.                     *)
(***************************************************************************)
EXTENDS Integers, Sequences, FiniteSets, TLC

VARIABLES
    env,        \* the worker's bindings: BLACKLIST_URLS, WHITELIST_ORIGINS
    pc,         \* per invocation: idle, fetch, buffer, done, threw
    request,    \* per invocation: the inbound request being handled
    targetUrl,  \* per invocation: the resolved target (NULL when none)
    outbound,   \* per invocation: the outbound requests issued, in order
    upstream,   \* per invocation: the target's response, once received
    response,   \* per invocation: the response returned to the caller
    thrown      \* per invocation: the exception that escaped the handler

vars == <<env, pc, request, targetUrl, outbound, upstream, response, thrown>>

NULL == "<null>"

-----------------------------------------------------------------------------
(* String primitives (String.prototype.startsWith / includes / toLowerCase) *)

StartsWith(s, p) == Len(s) >= Len(p) /\ SubSeq(s, 1, Len(p)) = p

EndsWith(s, p) == Len(s) >= Len(p) /\ SubSeq(s, Len(s) - Len(p) + 1, Len(s)) = p

Includes(s, p) ==
    \E i \in 1..(Len(s) - Len(p) + 1) : SubSeq(s, i, i + Len(p) - 1) = p

\* The position of the first occurrence of p in s, 0 when there is none.
IndexOf(s, p) ==
    LET found == {i \in 1..(Len(s) - Len(p) + 1) : SubSeq(s, i, i + Len(p) - 1) = p}
    IN  IF found = {} THEN 0 ELSE CHOOSE i \in found : \A j \in found : i <= j

LowerChar(c) ==
    CASE c = "A" -> "a" [] c = "B" -> "b" [] c = "C" -> "c" [] c = "D" -> "d"
      [] c = "E" -> "e" [] c = "F" -> "f" [] c = "G" -> "g" [] c = "H" -> "h"
      [] c = "I" -> "i" [] c = "J" -> "j" [] c = "K" -> "k" [] c = "L" -> "l"
      [] c = "M" -> "m" [] c = "N" -> "n" [] c = "O" -> "o" [] c = "P" -> "p"
      [] c = "Q" -> "q" [] c = "R" -> "r" [] c = "S" -> "s" [] c = "T" -> "t"
      [] c = "U" -> "u" [] c = "V" -> "v" [] c = "W" -> "w" [] c = "X" -> "x"
      [] c = "Y" -> "y" [] c = "Z" -> "z" [] OTHER -> c

RECURSIVE ToLowerCase(_)
ToLowerCase(s) ==
    IF s = "" THEN "" ELSE LowerChar(Head(s)) \o ToLowerCase(Tail(s))

\* JavaScript truthiness of a value that is a string or null.
Truthy(v) == v # NULL /\ v # ""

-----------------------------------------------------------------------------
(* Regular expressions.  `uri.match(pattern)` compiles the pattern string  *)
(* (new RegExp(pattern), a SyntaxError when it is not a regular            *)
(* expression) and searches uri for it.  The patterns of the model are the *)
(* ones below; RegExpOf gives each its meaning: the literal alternatives   *)
(* it denotes and whether it is anchored at the start and at the end.      *)

PatAny       == ".*"
PatMalicious == "^https?://malicious\\.com"
PatAppOrigin == "^https://app\\.test$"
PatBroken    == "("

RegExpOf(pattern) ==
    CASE pattern = PatAny ->
            [ok |-> TRUE, start |-> FALSE, end |-> FALSE, alts |-> {""}]
      [] pattern = PatMalicious ->
            [ok |-> TRUE, start |-> TRUE, end |-> FALSE,
             alts |-> {"http://malicious.com", "https://malicious.com"}]
      [] pattern = PatAppOrigin ->
            [ok |-> TRUE, start |-> TRUE, end |-> TRUE,
             alts |-> {"https://app.test"}]
      [] OTHER ->
            [ok |-> FALSE, start |-> FALSE, end |-> FALSE, alts |-> {}]

\* uri.match(pattern) !== null, for a pattern that compiles.
Matches(uri, pattern) ==
    LET re == RegExpOf(pattern) IN
    \E lit \in re.alts :
        CASE re.start /\ re.end -> uri = lit
          [] re.start           -> StartsWith(uri, lit)
          [] re.end             -> EndsWith(uri, lit)
          [] OTHER              -> Includes(uri, lit)

\* listing.some(pattern => uri.match(pattern) !== null): the patterns are
\* tried in order; the first that matches ends the search, and one that does
\* not compile raises before any later pattern is tried.
RECURSIVE SomeMatch(_, _)
SomeMatch(uri, listing) ==
    IF listing = <<>> THEN "false"
    ELSE IF ~RegExpOf(Head(listing)).ok THEN "throw"
    ELSE IF Matches(uri, Head(listing)) THEN "true"
    ELSE SomeMatch(uri, Tail(listing))

isListedInWhitelist(uri, listing) ==
    IF uri # NULL THEN SomeMatch(uri, listing) ELSE "true"

-----------------------------------------------------------------------------
(* JSON.  JSON.parse is the table JSONparse over the texts of the model: a *)
(* text that is not JSON gives [ok |-> FALSE] (a SyntaxError), any other   *)
(* its value, tagged with its JavaScript type.                             *)

JArray(elems)    == [ok |-> TRUE, type |-> "array",  elems |-> elems, keys |-> <<>>, vals |-> <<>>]
JObject(ks, vs)  == [ok |-> TRUE, type |-> "object", elems |-> <<>>, keys |-> ks, vals |-> vs]
JScalar(t, text) == [ok |-> TRUE, type |-> t, elems |-> <<text>>, keys |-> <<>>, vals |-> <<>>]
JInvalid         == [ok |-> FALSE, type |-> "none", elems |-> <<>>, keys |-> <<>>, vals |-> <<>>]

TxtBlacklist   == "[\"^https?://malicious\\\\.com\"]"
TxtWhitelist   == "[\"^https://app\\\\.test$\"]"
TxtBrokenList  == "[\"(\"]"
TxtNotJson     == "not json"
TxtObjNotArray == "{\"a\":\"b\"}"
TxtOverride    == "{\"X-Foo\":\"bar\"}"
TxtBadName     == "{\"bad name\":\"v\"}"
TxtArrayHdr    == "[\"a\"]"
TxtJsonNull    == "null"
TxtJsonString  == "\"plain\""
TxtAgent       == "{\"User-Agent\":\"probe/1.0\",\"Origin\":\"https://spoof.test\"}"

JSONparse(text) ==
    CASE text = TxtBlacklist   -> JArray(<<PatMalicious>>)
      [] text = TxtWhitelist   -> JArray(<<PatAppOrigin>>)
      [] text = TxtBrokenList  -> JArray(<<PatBroken>>)
      [] text = TxtObjNotArray -> JObject(<<"a">>, <<"b">>)
      [] text = TxtOverride    -> JObject(<<"X-Foo">>, <<"bar">>)
      [] text = TxtBadName     -> JObject(<<"bad name">>, <<"v">>)
      [] text = TxtArrayHdr    -> JArray(<<"a">>)
      [] text = TxtJsonNull    -> JScalar("null", "null")
      [] text = TxtJsonString  -> JScalar("string", "plain")
      [] text = TxtAgent       -> JObject(<<"User-Agent", "Origin">>,
                                          <<"probe/1.0", "https://spoof.test">>)
      [] OTHER                 -> JInvalid

-----------------------------------------------------------------------------
(* Configuration *)

DEFAULT_BLACKLIST_URLS    == <<>>
DEFAULT_WHITELIST_ORIGINS == <<PatAny>>

\* One setting of getConfig: the default when the variable is unset or
\* empty, when its text is not JSON, or when its value is not an array.
ConfigList(raw, default) ==
    IF ~Truthy(raw) THEN default
    ELSE LET v == JSONparse(raw) IN
         IF v.ok /\ v.type = "array" THEN v.elems ELSE default

\* Faulty variant: one try block around both settings, so that a malformed
\* value of either leaves both at their defaults.
getConfigSingleTry(e) ==
    LET malformed(raw) == Truthy(raw) /\ ~(JSONparse(raw).ok /\ JSONparse(raw).type = "array")
    IN  IF malformed(e.BLACKLIST_URLS) \/ malformed(e.WHITELIST_ORIGINS)
        THEN [blacklistUrls    |-> DEFAULT_BLACKLIST_URLS,
              whitelistOrigins |-> DEFAULT_WHITELIST_ORIGINS]
        ELSE [blacklistUrls    |-> ConfigList(e.BLACKLIST_URLS, DEFAULT_BLACKLIST_URLS),
              whitelistOrigins |-> ConfigList(e.WHITELIST_ORIGINS, DEFAULT_WHITELIST_ORIGINS)]

getConfig(e) ==
    [blacklistUrls    |-> ConfigList(e.BLACKLIST_URLS, DEFAULT_BLACKLIST_URLS),
     whitelistOrigins |-> ConfigList(e.WHITELIST_ORIGINS, DEFAULT_WHITELIST_ORIGINS)]

-----------------------------------------------------------------------------
(* Characters and percent-encoding *)

\* The printable ASCII characters, in code order from 32 (space) to 126 (~).
\* A TLA+ string cannot hold the grave accent (code 96): its place is taken
\* by a tab, which no string of the model contains.
ASCII ==
    " !\"#$%&'(" \o ")*+,-./0123456789:;<=>?@" \o "ABCDEFGHIJKLMNOPQRSTUVWXYZ" \o
    "[\\]^_\t" \o "abcdefghijklmnopqrstuvwxyz" \o "{|}~"

\* char.charCodeAt(0), for a printable ASCII character.
CharCodes ==
    [c \in {SubSeq(ASCII, i, i) : i \in 1..Len(ASCII)} |-> 31 + IndexOf(ASCII, c)]

charCodeAt(c) == CharCodes[c]

fromCharCode(n) == SubSeq(ASCII, n - 31, n - 31)

IsHexDigit(c) == Len(c) = 1 /\ Includes("0123456789abcdefABCDEF", c)

HexValue(c) == IndexOf("0123456789abcdef", LowerChar(c)) - 1

HexByte(n) ==
    LET d == "0123456789ABCDEF" IN
    SubSeq(d, (n \div 16) + 1, (n \div 16) + 1) \o SubSeq(d, (n % 16) + 1, (n % 16) + 1)

\* s at position i is a well-formed escape %XX.
IsEscapeAt(s, i) ==
    /\ i + 2 <= Len(s)
    /\ SubSeq(s, i, i) = "%"
    /\ IsHexDigit(SubSeq(s, i + 1, i + 1))
    /\ IsHexDigit(SubSeq(s, i + 2, i + 2))

EscapeCode(s, i) ==
    16 * HexValue(SubSeq(s, i + 1, i + 1)) + HexValue(SubSeq(s, i + 2, i + 2))

\* decodeURIComponent: every % must start an escape %XX, or a URIError is
\* raised.  An escape of a printable ASCII character decodes to it; any other
\* byte (a control character, or a byte of 0x80 and above, which in the
\* model never starts a well-formed UTF-8 sequence) raises as a lone 0x80+
\* byte does.  The result is [ok, value].
RECURSIVE DecodeFrom(_, _)
DecodeFrom(s, i) ==
    IF i > Len(s) THEN [ok |-> TRUE, value |-> ""]
    ELSE IF SubSeq(s, i, i) # "%"
         THEN LET rest == DecodeFrom(s, i + 1) IN
              [ok |-> rest.ok, value |-> SubSeq(s, i, i) \o rest.value]
    ELSE IF ~IsEscapeAt(s, i) \/ EscapeCode(s, i) \notin 32..126
         THEN [ok |-> FALSE, value |-> ""]
    ELSE LET rest == DecodeFrom(s, i + 3) IN
         [ok |-> rest.ok, value |-> fromCharCode(EscapeCode(s, i)) \o rest.value]

decodeURIComponent(s) == DecodeFrom(s, 1)

\* The application/x-www-form-urlencoded decoding URLSearchParams applies to
\* a name or a value: + is a space, a well-formed escape of a printable
\* ASCII character is that character, and anything else is kept as it is.
RECURSIVE FormDecodeFrom(_, _)
FormDecodeFrom(s, i) ==
    IF i > Len(s) THEN ""
    ELSE IF SubSeq(s, i, i) = "+" THEN " " \o FormDecodeFrom(s, i + 1)
    ELSE IF IsEscapeAt(s, i) /\ EscapeCode(s, i) \in 32..126
         THEN fromCharCode(EscapeCode(s, i)) \o FormDecodeFrom(s, i + 3)
    ELSE SubSeq(s, i, i) \o FormDecodeFrom(s, i + 1)

FormDecode(s) == FormDecodeFrom(s, 1)

\* s.split(sep), for a one-character separator.
RECURSIVE Split(_, _)
Split(s, sep) ==
    LET i == IndexOf(s, sep) IN
    IF i = 0 THEN <<s>>
    ELSE <<SubSeq(s, 1, i - 1)>> \o Split(SubSeq(s, i + 1, Len(s)), sep)

\* Every character of s that is in `set` replaced by its escape %XX.
RECURSIVE PercentEncode(_, _)
PercentEncode(s, set) ==
    IF s = "" THEN ""
    ELSE (IF Includes(set, Head(s))
          THEN "%" \o HexByte(charCodeAt(Head(s)))
          ELSE Head(s)) \o PercentEncode(Tail(s), set)

-----------------------------------------------------------------------------
(* URLSearchParams over originUrl.search *)

\* The name/value pairs of a query string (without its leading ?): the
\* string is cut at every &, empty pieces are dropped, each piece is cut at
\* its first = and both halves are form-decoded.
ParamPair(piece) ==
    LET i == IndexOf(piece, "=") IN
    IF i = 0 THEN <<FormDecode(piece), "">>
    ELSE <<FormDecode(SubSeq(piece, 1, i - 1)),
           FormDecode(SubSeq(piece, i + 1, Len(piece)))>>

searchParams(search) ==
    LET pieces == Split(SubSeq(search, 2, Len(search)), "&")
        kept   == SelectSeq(pieces, LAMBDA p : p # "")
    IN  [k \in 1..Len(kept) |-> ParamPair(kept[k])]

\* searchParams.get(name): the value of the first pair of that name, or null.
ParamGet(params, name) ==
    LET I == {k \in 1..Len(params) : params[k][1] = name} IN
    IF I = {} THEN NULL
    ELSE params[CHOOSE k \in I : \A j \in I : k <= j][2]

\* Array.from(searchParams.keys())
ParamKeys(params) == [k \in 1..Len(params) |-> params[k][1]]

-----------------------------------------------------------------------------
(* new URL(s).href, for the strings the handler gives it: the target        *)
(* candidate always begins with http:// or https:// in some letter case,   *)
(* so it is parsed as a URL of a special scheme.  Modelled: the scheme and *)
(* the host are lower-cased, any run of slashes after the scheme is one    *)
(* //, a missing path is /, a default port is dropped, and the characters  *)
(* of the percent-encode sets are escaped; an empty host, a host with a    *)
(* forbidden character and a port that is not a number are failures.       *)
(* Outside the model's strings: userinfo, IPv4 and IPv6 hosts, dot         *)
(* segments, non-ASCII characters.                                         *)

Min(S) == CHOOSE x \in S : \A y \in S : x <= y
Max(S) == CHOOSE x \in S : \A y \in S : x >= y

\* The position of the first character of s that is one of `chars`, else 0.
FirstOf(s, chars) ==
    LET I == {i \in 1..Len(s) : Includes(chars, SubSeq(s, i, i))} IN
    IF I = {} THEN 0 ELSE Min(I)

LastIndexOf(s, c) ==
    LET I == {i \in 1..Len(s) : SubSeq(s, i, i) = c} IN
    IF I = {} THEN 0 ELSE Max(I)

\* /^https?:\/\//i
LooksLikeHttpUrl(s) ==
    LET p == ToLowerCase(SubSeq(s, 1, IF Len(s) < 8 THEN Len(s) ELSE 8)) IN
    StartsWith(p, "http://") \/ StartsWith(p, "https://")

\* /^https?%3A%2F%2F/i
LooksLikeEncodedHttpUrl(s) ==
    LET p == ToLowerCase(SubSeq(s, 1, IF Len(s) < 14 THEN Len(s) ELSE 14)) IN
    StartsWith(p, "http%3a%2f%2f") \/ StartsWith(p, "https%3a%2f%2f")

RECURSIVE TrimSpaces(_)
TrimSpaces(s) ==
    IF s # "" /\ Head(s) = " " THEN TrimSpaces(Tail(s))
    ELSE IF s # "" /\ SubSeq(s, Len(s), Len(s)) = " "
         THEN TrimSpaces(SubSeq(s, 1, Len(s) - 1))
    ELSE s

RECURSIVE SkipSlashes(_)
SkipSlashes(s) ==
    IF s # "" /\ (Head(s) = "/" \/ Head(s) = "\\") THEN SkipSlashes(Tail(s)) ELSE s

RECURSIVE BackslashToSlash(_)
BackslashToSlash(s) ==
    IF s = "" THEN ""
    ELSE (IF Head(s) = "\\" THEN "/" ELSE Head(s)) \o BackslashToSlash(Tail(s))

RECURSIVE PercentDecodeFrom(_, _)
PercentDecodeFrom(s, i) ==
    IF i > Len(s) THEN ""
    ELSE IF IsEscapeAt(s, i) /\ EscapeCode(s, i) \in 32..126
         THEN fromCharCode(EscapeCode(s, i)) \o PercentDecodeFrom(s, i + 3)
    ELSE SubSeq(s, i, i) \o PercentDecodeFrom(s, i + 1)

IsDigits(s) == \A i \in 1..Len(s) : Includes("0123456789", SubSeq(s, i, i))

ForbiddenDomainChars == " #/:<>?@[\\]^|%"
PathEncodeSet        == " \"#<>?{}"
QueryEncodeSet       == " \"#<>'"
FragmentEncodeSet    == " \"<>"

\* The part of s before position i (all of s when i is 0), from position
\* i on and after position i (nothing when i is 0).
Before(s, i) == IF i = 0 THEN s ELSE SubSeq(s, 1, i - 1)
From(s, i)   == IF i = 0 THEN "" ELSE SubSeq(s, i, Len(s))
After(s, i)  == IF i = 0 THEN "" ELSE SubSeq(s, i + 1, Len(s))

\* The components of the input: scheme ":" slashes authority tail, where
\* authority is host[:port] and tail is path[?query][#fragment].
SchemeOf(s)      == ToLowerCase(SubSeq(s, 1, IndexOf(s, ":") - 1))
AfterScheme(s)   == SkipSlashes(SubSeq(s, IndexOf(s, ":") + 1, Len(s)))
AuthorityOf(r)   == Before(r, FirstOf(r, "/\\?#"))
TailOf(r)        == From(r, FirstOf(r, "/\\?#"))
HostOf(auth)     == ToLowerCase(PercentDecodeFrom(Before(auth, LastIndexOf(auth, ":")), 1))
PortOf(auth)     == After(auth, LastIndexOf(auth, ":"))
NoFragment(tail) == Before(tail, IndexOf(tail, "#"))
FragmentOf(tail) == From(tail, IndexOf(tail, "#"))
PathOf(tail)     == Before(NoFragment(tail), IndexOf(NoFragment(tail), "?"))
QueryOf(tail)    == From(NoFragment(tail), IndexOf(NoFragment(tail), "?"))

\* The serialization of each component.
PortText(scheme, port) ==
    IF port = "" \/ port = (IF scheme = "https" THEN "443" ELSE "80")
    THEN "" ELSE ":" \o port

PathText(rawPath) ==
    IF rawPath = "" THEN "/" ELSE PercentEncode(BackslashToSlash(rawPath), PathEncodeSet)

QueryText(query) ==
    IF query = "" THEN "" ELSE "?" \o PercentEncode(Tail(query), QueryEncodeSet)

FragmentText(fragment) ==
    IF fragment = "" THEN "" ELSE "#" \o PercentEncode(Tail(fragment), FragmentEncodeSet)

Serialize(scheme, host, port, tail) ==
    IF \/ host = ""
       \/ FirstOf(host, ForbiddenDomainChars) # 0
       \/ ~IsDigits(port)
    THEN [ok |-> FALSE, href |-> ""]
    ELSE [ok |-> TRUE,
          href |-> scheme \o "://" \o host \o PortText(scheme, port)
                   \o PathText(PathOf(tail)) \o QueryText(QueryOf(tail))
                   \o FragmentText(FragmentOf(tail))]

ParseAuthority(scheme, rest) ==
    Serialize(scheme, HostOf(AuthorityOf(rest)), PortOf(AuthorityOf(rest)), TailOf(rest))

\* new URL(input): [ok, href]; ok is FALSE when the constructor raises.
URLparse(input) ==
    ParseAuthority(SchemeOf(TrimSpaces(input)), AfterScheme(TrimSpaces(input)))

\* url.searchParams.get(name) of an href produced by URLparse.
UrlSearchParam(href, name) ==
    IF QueryOf(href) = "" THEN NULL
    ELSE ParamGet(searchParams(QueryOf(href)), name)

-----------------------------------------------------------------------------
(* Target extraction and normalization *)

\* The reconstruction of a raw target from the parsed parameters: the keys
\* joined by /, each followed by =value when its (first) value is not empty.
RECURSIVE Reconstruct(_, _)
Reconstruct(params, keys) ==
    IF keys = <<>> THEN ""
    ELSE LET key   == keys[Len(keys)]
             value == ParamGet(params, key)
             front == Reconstruct(params, SubSeq(keys, 1, Len(keys) - 1))
         IN  (IF front # "" THEN front \o "/" ELSE "")
             \o key \o (IF Truthy(value) THEN "=" \o value ELSE "")

\* Faulty variant: a failure of the second decoding always falls back to the
\* once-decoded string.
ProgressiveDecodeByLevel(searchString) ==
    LET d1 == decodeURIComponent(searchString)
        d2 == decodeURIComponent(d1.value)
    IN  IF d1.ok /\ ~Includes(d1.value, "%") THEN d1.value
        ELSE IF d1.ok /\ d2.ok THEN d2.value
        ELSE IF d1.ok THEN d1.value
        ELSE searchString

\* The progressive decoding of a legacy query string.
ProgressiveDecode(searchString) ==
    LET d1 == decodeURIComponent(searchString)
        d2 == decodeURIComponent(d1.value)
    IN  IF d1.ok /\ ~Includes(d1.value, "%") THEN d1.value
        ELSE IF d1.ok /\ d2.ok THEN d2.value
        \* a decode raised: the catch block
        ELSE IF LooksLikeEncodedHttpUrl(searchString) \/ LooksLikeHttpUrl(searchString)
             THEN (IF d1.ok THEN d1.value ELSE searchString)
        ELSE searchString

\* The reconstruction attempted when the query string was parsed into
\* several parameters, or into one without any = in the string.
Reconstructed(params, searchString) ==
    IF Len(params) > 1 \/ (Len(params) = 1 /\ ~Includes(searchString, "="))
    THEN Reconstruct(params, ParamKeys(params))
    ELSE ""

\* The target candidate of the legacy form ?<target>.
LegacyTarget(params, searchString) ==
    IF LooksLikeHttpUrl(Reconstructed(params, searchString))
    THEN Reconstructed(params, searchString)
    ELSE ProgressiveDecode(searchString)

\* Faulty variant: the url parameter is not looked at; every query string is
\* taken for the legacy form.
ExtractTargetLegacyOnly(search) ==
    IF ~StartsWith(search, "?") \/ Len(search) <= 1 THEN NULL
    ELSE LegacyTarget(searchParams(search), SubSeq(search, 2, Len(search)))

\* The target candidate taken from originUrl.search (null or "" when none).
ExtractTarget(search) ==
    IF \/ Truthy(ParamGet(searchParams(search), "url"))
       \/ ~StartsWith(search, "?")
       \/ Len(search) <= 1
    THEN ParamGet(searchParams(search), "url")
    ELSE LegacyTarget(searchParams(search), SubSeq(search, 2, Len(search)))

\* Faulty variant: a candidate without an http(s) scheme is not completed.
NormalizeTargetSchemeOnly(candidate) ==
    IF ~Truthy(candidate) THEN candidate
    ELSE IF LooksLikeHttpUrl(candidate) /\ URLparse(candidate).ok
         THEN URLparse(candidate).href
    ELSE NULL

\* Faulty variant: a candidate that is no URL is kept.
NormalizeTargetKeepInvalid(candidate) ==
    IF ~Truthy(candidate) THEN candidate
    ELSE LET withScheme == IF LooksLikeHttpUrl(candidate) THEN candidate
                           ELSE "https://" \o candidate
             parsed == URLparse(withScheme)
         IN  IF parsed.ok THEN parsed.href ELSE withScheme

\* Faulty variant: the candidate is validated and kept as it was written.
NormalizeTargetAsWritten(candidate) ==
    IF ~Truthy(candidate) THEN candidate
    ELSE LET withScheme == IF LooksLikeHttpUrl(candidate) THEN candidate
                           ELSE "https://" \o candidate
         IN  IF URLparse(withScheme).ok THEN withScheme ELSE NULL

\* Validation and normalization of the candidate: https:// is put before a
\* candidate without an http(s) scheme; the result is the parsed URL's href,
\* or null when it does not parse.
NormalizeTarget(candidate) ==
    IF ~Truthy(candidate) THEN candidate
    ELSE LET withScheme == IF LooksLikeHttpUrl(candidate) THEN candidate
                           ELSE "https://" \o candidate
             parsed == URLparse(withScheme)
         IN  IF parsed.ok THEN parsed.href ELSE NULL

ResolveTarget(search) == NormalizeTarget(ExtractTarget(search))

-----------------------------------------------------------------------------
(* Header collections.  A Headers object is a function from lower-case      *)
(* header names to values; a plain object (filteredHeaders) and the        *)
(* entries of the target's response are sequences of <<name, value>>.      *)

EmptyHeaders == [n \in {} |-> ""]

HeadersGet(h, name) == IF name \in DOMAIN h THEN h[name] ELSE NULL

HeadersHas(h, name) == name \in DOMAIN h

HeadersSet(h, name, value) ==
    [n \in DOMAIN h \cup {name} |-> IF n = name THEN value ELSE h[n]]

HeadersDelete(h, name) == [n \in DOMAIN h \ {name} |-> h[n]]

\* new Headers(entries): names are lower-cased, and the values of a name
\* that occurs more than once are combined with ", " in order.
RECURSIVE HeadersOf(_)
HeadersOf(entries) ==
    IF entries = <<>> THEN EmptyHeaders
    ELSE LET front == HeadersOf(SubSeq(entries, 1, Len(entries) - 1))
             name  == ToLowerCase(entries[Len(entries)][1])
             value == entries[Len(entries)][2]
         IN  IF HeadersHas(front, name)
             THEN HeadersSet(front, name, front[name] \o ", " \o value)
             ELSE HeadersSet(front, name, value)

\* obj[key] = value on a plain object: an existing key keeps its place.
ObjectSet(obj, key, value) ==
    IF \E i \in 1..Len(obj) : obj[i][1] = key
    THEN [i \in 1..Len(obj) |-> IF obj[i][1] = key THEN <<key, value>> ELSE obj[i]]
    ELSE Append(obj, <<key, value>>)

\* Object.assign(obj, source)
RECURSIVE ObjectAssign(_, _)
ObjectAssign(obj, source) ==
    IF source = <<>> THEN obj
    ELSE ObjectAssign(ObjectSet(obj, source[1][1], source[1][2]), Tail(source))

\* An HTTP header name is a token; new Request / new Headers raise a
\* TypeError for any other name.
IsHeaderName(name) == name # "" /\ FirstOf(name, " \"(),/:;<=>?@[\\]{}") = 0

RECURSIVE JoinWith(_, _)
JoinWith(strings, sep) ==
    IF strings = <<>> THEN ""
    ELSE IF Len(strings) = 1 THEN strings[1]
    ELSE strings[1] \o sep \o JoinWith(Tail(strings), sep)

\* JSON.stringify of an object whose values are strings (none of the
\* model's header values holds a character JSON escapes).
JSONstringify(entries) ==
    "{" \o JoinWith([i \in 1..Len(entries) |->
                        "\"" \o entries[i][1] \o "\":\"" \o entries[i][2] \o "\""], ",")
        \o "}"

-----------------------------------------------------------------------------
(* The inbound request: request.method, originUrl.search, request.headers  *)
(* (NULL for a header that is not sent) and whether it has a body.         *)

InboundHeaderOrder ==
    <<"accept", "access-control-request-headers", "access-control-request-method",
      "cf-connecting-ip", "origin", "referer", "user-agent", "x-cors-headers",
      "x-forwarded-for", "x-request-id">>

InboundHeaderNames == {InboundHeaderOrder[i] : i \in 1..Len(InboundHeaderOrder)}

\* request.headers.get(name)
RequestHeader(req, name) == req.headers[name]

\* request.headers.entries(): the headers sent, by name.
RequestEntries(req) ==
    LET sent == SelectSeq(InboundHeaderOrder, LAMBDA n : req.headers[n] # NULL)
    IN  [i \in 1..Len(sent) |-> <<sent[i], req.headers[sent[i]]>>]

-----------------------------------------------------------------------------
(* The inputs of the model: the requests, the bindings and the behaviours   *)
(* of the target that the handler is run on.                               *)

Slots == {1, 2}

Methods == {"GET", "POST", "OPTIONS"}

Searches ==
    {"",
     "?url=https://example.com/api",
     "?url=https://malicious.com/x",
     "?url=http://",
     "?https%3A%2F%2Fexample.com%2Fsse%3Fstream%3Dtrue"}

\* Targets that carry a `stream` parameter of their own, for the streaming
\* decision.
StreamSearches ==
    {"?url=https://example.com/feed?stream=1",
     "?url=https://example.com/feed?stream=yes"}

AllSearches == Searches \cup StreamSearches

Origins == {NULL, "", "https://app.test", "https://evil.test"}

\* Access-Control-Request-Method and Access-Control-Request-Headers.
PreflightHeaders ==
    {<<NULL, NULL>>, <<"", "">>, <<"PUT", NULL>>, <<"PUT", "X-Custom">>}

CustomHeaderTexts == {NULL, TxtNotJson, TxtOverride, TxtBadName, TxtArrayHdr}

Accepts == {NULL, "text/event-stream"}

MakeRequest(method, search, origin, acrm, acrh, custom, accept) ==
    [method |-> method, search |-> search, hasBody |-> (method = "POST"),
     headers |-> [n \in InboundHeaderNames |->
                    CASE n = "origin"                         -> origin
                      [] n = "access-control-request-method"  -> acrm
                      [] n = "access-control-request-headers" -> acrh
                      [] n = "x-cors-headers"                 -> custom
                      [] n = "accept"                         -> accept
                      [] OTHER                                -> NULL]]

\* The request as a browser behind the platform's edge sends it: with its
\* own User-Agent and Referer, the edge's cf-connecting-ip and
\* x-forwarded-for, and an application header.
BrowserHeaders ==
    [n \in {"cf-connecting-ip", "referer", "user-agent", "x-forwarded-for", "x-request-id"} |->
        CASE n = "cf-connecting-ip" -> "203.0.113.7"
          [] n = "referer"          -> "https://app.test/page"
          [] n = "user-agent"       -> "Mozilla/5.0 (X11; Linux x86_64) Gecko/20100101 Firefox/115.0"
          [] n = "x-forwarded-for"  -> "203.0.113.7"
          [] n = "x-request-id"     -> "req-1"]

FromBrowser(req) ==
    [req EXCEPT !.headers = [n \in InboundHeaderNames |->
        IF n \in DOMAIN BrowserHeaders THEN BrowserHeaders[n] ELSE req.headers[n]]]

BrowserRequests ==
    {FromBrowser(MakeRequest(m, "?url=https://example.com/api", o, NULL, NULL, c, NULL)) :
        m \in {"GET", "OPTIONS"}, o \in {NULL, "https://app.test"},
        c \in {NULL, TxtNotJson, TxtAgent}}

Requests ==
    {MakeRequest(m, q, o, ph[1], ph[2], c, a) :
        m \in Methods, q \in Searches, o \in Origins, ph \in PreflightHeaders,
        c \in CustomHeaderTexts, a \in Accepts}
    \cup BrowserRequests

\* The requests handled two at a time.
ConcurrentRequests ==
    {MakeRequest(m, q, o, NULL, NULL, c, NULL) :
        m \in {"GET", "OPTIONS"},
        q \in {"", "?url=http://", "?url=https://example.com/api",
               "?url=https://malicious.com/x"},
        o \in {NULL, "https://evil.test"},
        c \in {NULL, TxtNotJson, TxtBadName}}
    \cup {MakeRequest("POST", "?url=https://example.com/api", NULL, NULL, NULL, NULL, NULL)}

Envs ==
    {[BLACKLIST_URLS |-> b, WHITELIST_ORIGINS |-> w] :
        b \in {NULL, TxtBlacklist, TxtNotJson, TxtBrokenList},
        w \in {NULL, TxtWhitelist, TxtObjNotArray, TxtBrokenList}}

\* The bindings configuration loading is run on: each variable unset, well
\* formed, not JSON, and JSON that is not an array.
ConfigEnvs ==
    {[BLACKLIST_URLS |-> b, WHITELIST_ORIGINS |-> w] :
        b \in {NULL, TxtBlacklist, TxtNotJson, TxtObjNotArray, TxtJsonNull},
        w \in {NULL, TxtWhitelist, TxtNotJson, TxtObjNotArray, TxtJsonString}}

ConfigRequests ==
    {MakeRequest(m, q, o, NULL, NULL, NULL, NULL) :
        m \in {"GET", "OPTIONS"},
        q \in {"", "?url=https://example.com/api", "?url=https://malicious.com/x"},
        o \in Origins}

ConcurrentEnvs ==
    {[BLACKLIST_URLS |-> b, WHITELIST_ORIGINS |-> w] :
        b \in {NULL, TxtBlacklist}, w \in {NULL, TxtWhitelist, TxtBrokenList}}

\* The target's response: its status line and its headers, as the entries
\* response.headers iterates (lower-case names in order, each Set-Cookie
\* header on its own) and as the Headers object built from them.
UpstreamResponse(status, statusText, entries) ==
    [status |-> status, statusText |-> statusText, entries |-> entries,
     headers |-> HeadersOf(entries)]

UpstreamHeaders ==
    { << <<"content-type", "application/json">> >>,
      << <<"access-control-allow-credentials", "true">>,
         <<"access-control-allow-origin", "https://other.test">>,
         <<"access-control-max-age", "600">>,
         <<"content-type", "application/json">>,
         <<"set-cookie", "sid=1">>,
         <<"set-cookie", "theme=dark">> >>,
      << <<"content-type", "text/event-stream">> >> }

UpstreamResponses ==
    {UpstreamResponse(st[1], st[2], h) :
        st \in {<<200, "OK">>, <<404, "Not Found">>}, h \in UpstreamHeaders}
    \cup {UpstreamResponse(204, "No Content", << <<"cache-control", "no-store">> >>)}

\* The requests and the target's responses the streaming decision is run
\* on: every combination of the request's Accept, the target's stream
\* parameter and the response's Content-Type, Transfer-Encoding and
\* Content-Encoding.
StreamRequests ==
    {MakeRequest(m, q, NULL, NULL, NULL, NULL, a) :
        m \in {"GET", "POST"},
        q \in StreamSearches \cup {"?url=https://example.com/api",
                                  "?https%3A%2F%2Fexample.com%2Fsse%3Fstream%3Dtrue"},
        a \in {NULL, "application/json", "text/event-stream"}}

StreamEntries(contentEncoding, contentType, transferEncoding) ==
    SelectSeq(<< <<"content-encoding", contentEncoding>>,
                 <<"content-type", contentType>>,
                 <<"transfer-encoding", transferEncoding>> >>,
              LAMBDA e : e[2] # NULL)

StreamUpstreams ==
    {UpstreamResponse(200, "OK", StreamEntries(ce, ct, te)) :
        ce \in {NULL, "gzip", "chunked"},
        ct \in {NULL, "application/json", "text/event-stream; charset=utf-8",
                "application/x-ndjson", "text/plain"},
        te \in {NULL, "Chunked", "gzip"}}

\* error.message of a fetch, or of a body read, that fails.
TransportErrors == {"connection refused"}

\* The resolved target of each query string, evaluated once.
targetUrlOf == [q \in AllSearches |-> ResolveTarget(q)]

Targets == {targetUrlOf[q] : q \in AllSearches}

\* encodeURIComponent, as a caller applies it to a target before putting it
\* in the query string: every character is escaped but letters, digits and
\* - _ . ! ~ * ' ( ).
encodeURIComponent(s) == PercentEncode(s, " \"#$%&+,/:;<=>?@[\\]^{|}")

\* Targets in the form new URL(...).href gives them.
CanonicalUrls ==
    {"https://example.com/",
     "https://example.com/api",
     "https://example.com/api?a=1",
     "https://example.com/api?a=1&b=2",
     "https://example.com/s?q=a+b",
     "https://example.com/s?q=100%25&r=%41",
     "http://example.com:8080/a/b?x=1#top"}

\* Targets as a caller may write them after the ? of the legacy form or
\* after ?url= : as they are, or escaped.
WrittenUrls ==
    {"https://example.com/",
     "https://example.com/api",
     "https://example.com/api?a=1",
     "https://example.com/api?a=1&b=2",
     "https://example.com/s?q=a+b",
     "api.example.com/data"}
    \cup {encodeURIComponent(u) : u \in CanonicalUrls}

\* The query strings that target resolution is run on.
ResolveSearches ==
    {"", "?url=", "?url=http://", "?url=https://", "?url=%20", "?x", "?%25zz",
     "?a=1&b=2", "?url=&x=1",
     "?url=example.com", "?example.com", "?url=example.com/a?b=1",
     "?url=localhost:8080/x", "?url=//example.com/x",
     "?url=ftp://example.com/a", "?url=javascript:alert(1)",
     "?url=HTTPS://Example.COM/A", "?HTTP://Example.COM",
     "?https%253A%252F%252Fexample.com%252Fx",
     "?100%", "?example.com/%25zz", "?https://example.com/100%=1",
     "?https%3A%2F%2Fexample.com%2Fa%25zz=1"}
    \cup {"?" \o u : u \in WrittenUrls}
    \cup {"?url=" \o u : u \in WrittenUrls}

\* The candidate each query string gives, and the target each candidate
\* resolves to, evaluated once.
candidateOf == [q \in ResolveSearches |-> ExtractTarget(q)]

normalizedOf == [c \in {candidateOf[q] : q \in ResolveSearches} |-> NormalizeTarget(c)]

-----------------------------------------------------------------------------
(* CORS headers *)

DefaultAllowMethods == "GET, POST, PUT, DELETE, PATCH, HEAD, OPTIONS"
DefaultAllowHeaders == "Content-Type, Authorization, X-Requested-With, Accept, Origin"

\* Faulty variant: the preflight lists are always the defaults.
setupCORSHeadersFixedLists(req, headers) ==
    LET origin == RequestHeader(req, "origin")
        h1 == IF Truthy(origin)
              THEN HeadersSet(HeadersSet(headers, "access-control-allow-origin", origin),
                              "access-control-allow-credentials", "true")
              ELSE HeadersSet(headers, "access-control-allow-origin", "*")
    IN  IF req.method = "OPTIONS"
        THEN HeadersSet(HeadersSet(h1, "access-control-allow-methods", DefaultAllowMethods),
                        "access-control-allow-headers", DefaultAllowHeaders)
        ELSE h1

setupCORSHeaders(req, headers) ==
    LET origin == RequestHeader(req, "origin")
        h1 == IF Truthy(origin)
              THEN HeadersSet(HeadersSet(headers, "access-control-allow-origin", origin),
                              "access-control-allow-credentials", "true")
              ELSE HeadersSet(headers, "access-control-allow-origin", "*")
        requestMethod    == RequestHeader(req, "access-control-request-method")
        requestedHeaders == RequestHeader(req, "access-control-request-headers")
    IN  IF req.method = "OPTIONS"
        THEN HeadersDelete(
                HeadersSet(
                    HeadersSet(h1, "access-control-allow-methods",
                               IF Truthy(requestMethod) THEN requestMethod
                               ELSE DefaultAllowMethods),
                    "access-control-allow-headers",
                    IF Truthy(requestedHeaders) THEN requestedHeaders
                    ELSE DefaultAllowHeaders),
                "x-content-type-options")
        ELSE h1

\* new Response(body, {status, statusText, headers}): a text body with no
\* Content-Type among the headers gets text/plain.
BodyNull     == [kind |-> "null", text |-> ""]
BodyText(t)  == [kind |-> "text", text |-> t]
BodyBuffer   == [kind |-> "buffer", text |-> ""]
BodyStream   == [kind |-> "stream", text |-> ""]

\* new Response raises a TypeError for a body that is not null together with
\* a null body status.
NullBodyStatuses == {101, 204, 205, 304}

ResponseConstructs(body, status) == body = BodyNull \/ status \notin NullBodyStatuses

NullBodyMessage == "Response with null body status cannot have body"

NewResponse(body, status, statusText, headers) ==
    [status |-> status, statusText |-> statusText, body |-> body,
     headers |-> IF body.kind = "text" /\ ~HeadersHas(headers, "content-type")
                 THEN HeadersSet(headers, "content-type", "text/plain;charset=UTF-8")
                 ELSE headers]

-----------------------------------------------------------------------------
(* Browser fingerprints and the outbound header set *)

AcceptChrome ==
    "text/html,application/xhtml+xml,application/xml;q=0.9,image/avif,image/webp,image/apng,*/*;q=0.8,application/signed-exchange;v=b3;q=0.7"
SecChUaChrome == "\"Not_A Brand\";v=\"8\", \"Chromium\";v=\"120\", \"Google Chrome\";v=\"120\""

ChromeProfile(userAgent, platform, referer, secFetchSite) ==
    << <<"User-Agent", userAgent>>,
       <<"Accept", AcceptChrome>>,
       <<"Accept-Language", "en-US,en;q=0.9">>,
       <<"Accept-Encoding", "gzip, deflate, br">>,
       <<"Referer", referer>>,
       <<"Sec-Ch-Ua", SecChUaChrome>>,
       <<"Sec-Ch-Ua-Mobile", "?0">>,
       <<"Sec-Ch-Ua-Platform", platform>>,
       <<"Sec-Ch-Ua-Platform-Version", "\"15.0.0\"">>,
       <<"Sec-Fetch-Dest", "document">>,
       <<"Sec-Fetch-Mode", "navigate">>,
       <<"Sec-Fetch-Site", secFetchSite>>,
       <<"Sec-Fetch-User", "?1">>,
       <<"Upgrade-Insecure-Requests", "1">>,
       <<"Cache-Control", "max-age=0">> >>

OtherProfile(userAgent, accept, language, referer, secFetchSite) ==
    << <<"User-Agent", userAgent>>,
       <<"Accept", accept>>,
       <<"Accept-Language", language>>,
       <<"Accept-Encoding", "gzip, deflate, br">>,
       <<"Referer", referer>>,
       <<"DNT", "1">>,
       <<"Connection", "keep-alive">>,
       <<"Upgrade-Insecure-Requests", "1">>,
       <<"Sec-Fetch-Dest", "document">>,
       <<"Sec-Fetch-Mode", "navigate">>,
       <<"Sec-Fetch-Site", secFetchSite>>,
       <<"Sec-Fetch-User", "?1">>,
       <<"Cache-Control", "max-age=0">> >>

\* The four fingerprints, built for one request: index 0 is element 1.
browserFingerprints(referer, secFetchSite) ==
    << ChromeProfile(
           "Mozilla/5.0 (Windows NT 10.0; Win64; x64) AppleWebKit/537.36 (KHTML, like Gecko) Chrome/120.0.0.0 Safari/537.36",
           "\"Windows\"", referer, secFetchSite),
       ChromeProfile(
           "Mozilla/5.0 (Macintosh; Intel Mac OS X 10_15_7) AppleWebKit/537.36 (KHTML, like Gecko) Chrome/120.0.0.0 Safari/537.36",
           "\"macOS\"", referer, secFetchSite),
       OtherProfile(
           "Mozilla/5.0 (Windows NT 10.0; Win64; x64; rv:121.0) Gecko/20100101 Firefox/121.0",
           "text/html,application/xhtml+xml,application/xml;q=0.9,image/avif,image/webp,*/*;q=0.8",
           "en-US,en;q=0.5", referer, secFetchSite),
       OtherProfile(
           "Mozilla/5.0 (Macintosh; Intel Mac OS X 10_15_7) AppleWebKit/605.1.15 (KHTML, like Gecko) Version/17.1 Safari/605.1.15",
           "text/html,application/xhtml+xml,application/xml;q=0.9,*/*;q=0.8",
           "en-US,en;q=0.9", referer, secFetchSite) >>

\* The hash of the target.  A JavaScript number is kept as hi * 65536 + lo
\* with 0 <= lo < 65536, so that no intermediate value leaves TLC's
\* integers.  `hash << 5` converts hash to a 32-bit signed integer and
\* wraps the shifted value to 32 bits; `- hash + charCode` is exact.
Limbs(hi, lo) == [hi |-> hi + (lo \div 65536), lo |-> lo % 65536]

ToInt32(n) ==
    LET h == n.hi % 65536 IN
    [hi |-> IF h >= 32768 THEN h - 65536 ELSE h, lo |-> n.lo]

ShiftLeft5(n) ==
    LET v == ToInt32(n) IN ToInt32(Limbs(v.hi * 32, v.lo * 32))

HashStep(hash, char) ==
    LET shifted == ShiftLeft5(hash) IN
    Limbs(shifted.hi - hash.hi, shifted.lo - hash.lo + charCodeAt(char))

\* The reduce over characters a..b of s, from the accumulator `hash`.  The
\* range is folded by halves, the accumulator of the first half being
\* evaluated (the test on it) before the second half is folded, so that the
\* evaluation of a long string does not nest once per character.
RECURSIVE HashRange(_, _, _, _)
HashRange(s, a, b, hash) ==
    IF a > b THEN hash
    ELSE IF a = b THEN HashStep(hash, SubSeq(s, a, a))
    ELSE LET mid  == (a + b) \div 2
             half == HashRange(s, a, mid, hash)
         IN  IF half.lo \in 0..65535 THEN HashRange(s, mid + 1, b, half) ELSE half

HashOf(s) == HashRange(s, 1, Len(s), [hi |-> 0, lo |-> 0])

\* Math.abs(n) % 4
AbsMod4(n) == IF n.hi >= 0 THEN n.lo % 4 ELSE (4 - (n.lo % 4)) % 4

fingerprintIndex(target) == AbsMod4(HashOf(target))

\* Faulty variant: only the Origin header is kept from the target.
ExcludedOriginOnly(key) == StartsWith(ToLowerCase(key), "origin")

\* /^origin/i, /^referer/i, /^cf-/, /^x-forw/i, /^x-cors-headers/i
Excluded(key) ==
    \/ StartsWith(ToLowerCase(key), "origin")
    \/ StartsWith(ToLowerCase(key), "referer")
    \/ StartsWith(key, "cf-")
    \/ StartsWith(ToLowerCase(key), "x-forw")
    \/ StartsWith(ToLowerCase(key), "x-cors-headers")

\* The x-cors-headers value after the parsing step: the parsed JSON value,
\* or the header's text when it is not JSON (null when it is not sent).
CustomText(text) == [ok |-> TRUE, type |-> "string", elems |-> <<text>>, keys |-> <<>>, vals |-> <<>>]

\* Faulty variant: a text that is not JSON is taken for an object with the
\* text as its one key.
ParseCustomHeadersLenient(raw) ==
    IF raw = NULL THEN JScalar("null", "null")
    ELSE IF JSONparse(raw).ok THEN JSONparse(raw)
    ELSE JObject(<<raw>>, <<"">>)

ParseCustomHeaders(raw) ==
    IF raw = NULL THEN JScalar("null", "null")
    ELSE IF JSONparse(raw).ok THEN JSONparse(raw)
    ELSE CustomText(raw)

\* The own enumerable properties Object.assign copies from customHeaders: an
\* object's entries, an array's elements under their indices; none for null
\* (which the guard excludes) or a string (whose typeof is not "object").
IndexKey(i) == SubSeq("0123456789", i, i)

CustomEntries(custom) ==
    CASE custom.type = "object" ->
            [i \in 1..Len(custom.keys) |-> <<custom.keys[i], custom.vals[i]>>]
      [] custom.type = "array" ->
            [i \in 1..Len(custom.elems) |-> <<IndexKey(i), custom.elems[i]>>]
      [] OTHER -> <<>>

RECURSIVE Passthrough(_, _)
Passthrough(obj, entries) ==
    IF entries = <<>> THEN obj
    ELSE Passthrough(
            IF Excluded(entries[1][1]) THEN obj
            ELSE ObjectSet(obj, entries[1][1], entries[1][2]),
            Tail(entries))

\* Faulty variant: the fingerprint is chosen by the presence of an Origin.
filteredHeadersByOrigin(req, target) ==
    LET originHeader == RequestHeader(req, "origin")
        secFetchSite == IF Truthy(originHeader) THEN "cross-site" ELSE "none"
        referer      == IF Truthy(originHeader) THEN originHeader
                        ELSE "https://www.google.com/"
        profile      == browserFingerprints(referer, secFetchSite)
                            [IF Truthy(originHeader) THEN 1 ELSE 3]
        custom       == ParseCustomHeaders(RequestHeader(req, "x-cors-headers"))
    IN  ObjectAssign(Passthrough(ObjectAssign(<<>>, profile), RequestEntries(req)),
                     CustomEntries(custom))

\* filteredHeaders: the fingerprint, then the inbound headers that are not
\* excluded, then the custom headers.
filteredHeaders(req, target) ==
    LET originHeader == RequestHeader(req, "origin")
        secFetchSite == IF Truthy(originHeader) THEN "cross-site" ELSE "none"
        referer      == IF Truthy(originHeader) THEN originHeader
                        ELSE "https://www.google.com/"
        profile      == browserFingerprints(referer, secFetchSite)[fingerprintIndex(target) + 1]
        custom       == ParseCustomHeaders(RequestHeader(req, "x-cors-headers"))
    IN  ObjectAssign(Passthrough(ObjectAssign(<<>>, profile), RequestEntries(req)),
                     CustomEntries(custom))

\* new Request(targetUrl, {method, headers: filteredHeaders, body, redirect}):
\* a TypeError when a key of filteredHeaders is no header name.
RequestConstructs(req, target) ==
    LET fh == filteredHeaders(req, target) IN
    \A i \in 1..Len(fh) : IsHeaderName(fh[i][1])

NewRequest(req, target) ==
    [url |-> target, method |-> req.method,
     headers |-> HeadersOf(filteredHeaders(req, target)),
     body |-> req.hasBody, redirect |-> "follow"]

-----------------------------------------------------------------------------
(* The streaming decision *)

OrEmpty(v) == IF v = NULL THEN "" ELSE v

\* new URL(targetUrl).searchParams.get("stream"), null when there is no URL.
StreamParam(target) ==
    IF Truthy(target) /\ URLparse(target).ok
    THEN UrlSearchParam(URLparse(target).href, "stream")
    ELSE NULL

\* The stream parameter of each target, evaluated once.
streamParamOf == [t \in Targets |-> StreamParam(t)]

\* Faulty variant: only the response's Content-Type is consulted.
shouldStreamResponseByContentType(up, req, target) ==
    /\ req.method # "OPTIONS"
    /\ Includes(OrEmpty(HeadersGet(up.headers, "content-type")), "text/event-stream")

shouldStreamResponse(up, req, target) ==
    LET contentType      == OrEmpty(HeadersGet(up.headers, "content-type"))
        transferEncoding == OrEmpty(HeadersGet(up.headers, "transfer-encoding"))
        acceptHeader     == OrEmpty(RequestHeader(req, "accept"))
        contentEncoding  == OrEmpty(HeadersGet(up.headers, "content-encoding"))
        streamParam      == streamParamOf[target]
    IN  /\ req.method # "OPTIONS"
        /\ \/ Includes(contentType, "text/event-stream")
           \/ Includes(ToLowerCase(transferEncoding), "chunked")
           \/ Includes(acceptHeader, "text/event-stream")
           \/ streamParam = "true" \/ streamParam = "1"
           \/ Includes(contentEncoding, "chunked")
           \/ Includes(contentType, "application/x-ndjson")
           \/ /\ Includes(contentType, "text/plain")
              /\ Includes(ToLowerCase(transferEncoding), "chunked")

-----------------------------------------------------------------------------
(* The handler's decisions and responses *)

\* Faulty variant: a gate that does not consult the blacklist.
AdmittedSkippingBlacklist(target, originHeader, config) ==
    IF ~Truthy(target) THEN "false"
    ELSE isListedInWhitelist(originHeader, config.whitelistOrigins)

\* Faulty variant: a gate that does not consult the whitelist.
AdmittedSkippingWhitelist(target, originHeader, config) ==
    IF ~Truthy(target) THEN "false"
    ELSE LET blocked == isListedInWhitelist(target, config.blacklistUrls) IN
         IF blocked = "throw" THEN "throw"
         ELSE IF blocked = "true" THEN "false"
         ELSE "true"

\* targetUrl && !isListedInWhitelist(targetUrl, config.blacklistUrls)
\*           && isListedInWhitelist(originHeader, config.whitelistOrigins),
\* evaluated left to right: "true", "false", or "throw" when a pattern that
\* is reached does not compile.
Admitted(target, originHeader, config) ==
    IF ~Truthy(target) THEN "false"
    ELSE LET blocked == isListedInWhitelist(target, config.blacklistUrls) IN
         IF blocked = "throw" THEN "throw"
         ELSE IF blocked = "true" THEN "false"
         ELSE isListedInWhitelist(originHeader, config.whitelistOrigins)

\* Faulty variant: the admitted preflight is answered without a max-age.
PreflightResponseUncached(req, admitted) ==
    NewResponse(BodyNull, IF admitted THEN 200 ELSE 403,
                IF admitted THEN "OK" ELSE "Forbidden",
                setupCORSHeaders(req, EmptyHeaders))

PreflightResponse(req, admitted) ==
    IF admitted
    THEN NewResponse(BodyNull, 200, "OK",
                     HeadersSet(setupCORSHeaders(req, EmptyHeaders),
                                "access-control-max-age", "86400"))
    ELSE NewResponse(BodyNull, 403, "Forbidden", setupCORSHeaders(req, EmptyHeaders))

InfoText == "CLOUDFLARE-CORS-ANYWHERE"

InfoResponse(req) ==
    NewResponse(BodyText(InfoText), 200, "", setupCORSHeaders(req, EmptyHeaders))

BlockedText == "Create your own CORS proxy</br>"

\* Faulty variant: a target that is not admitted is answered 200.
BlockedResponseOk(req) ==
    NewResponse(BodyText(BlockedText), 200, "OK",
                HeadersSet(setupCORSHeaders(req, EmptyHeaders), "content-type", "text/html"))

BlockedResponse(req) ==
    NewResponse(BodyText(BlockedText), 403, "Forbidden",
                HeadersSet(setupCORSHeaders(req, EmptyHeaders), "content-type", "text/html"))

\* Faulty variant: the catch block answers without the CORS headers.
ErrorResponseBare(req, message) ==
    NewResponse(BodyText("Error fetching target URL: " \o message), 502, "Bad Gateway",
                EmptyHeaders)

ErrorResponse(req, message) ==
    NewResponse(BodyText("Error fetching target URL: " \o message), 502, "Bad Gateway",
                setupCORSHeaders(req, EmptyHeaders))

\* Faulty variant: the target's headers are relayed as they are.
RelayHeadersCopied(req, up) ==
    HeadersSet(
        HeadersSet(up.headers, "access-control-expose-headers",
                   JoinWith(Append([i \in 1..Len(up.entries) |-> up.entries[i][1]],
                                   "cors-received-headers"), ",")),
        "cors-received-headers", JSONstringify(ObjectAssign(<<>>, up.entries)))

\* Faulty variant: cors-received-headers is taken from the headers after the
\* CORS headers were set on them.
RelayHeadersAfterOverwrite(req, up) ==
    LET exposedHeaders == Append([i \in 1..Len(up.entries) |-> up.entries[i][1]],
                                 "cors-received-headers")
        corsHeaders    == setupCORSHeaders(req, up.headers)
    IN  HeadersSet(
            HeadersSet(corsHeaders,
                       "access-control-expose-headers", JoinWith(exposedHeaders, ",")),
            "cors-received-headers",
            JSONstringify(ObjectAssign(<<>>,
                [i \in 1..Len(up.entries) |->
                    <<up.entries[i][1], corsHeaders[up.entries[i][1]]>>])))

\* The headers of a relayed response: the target's, then the CORS headers,
\* Access-Control-Expose-Headers and cors-received-headers (the object
\* Object.fromEntries builds keeps, for a name that occurs more than once,
\* its last value).
RelayHeaders(req, up) ==
    LET exposedHeaders == Append([i \in 1..Len(up.entries) |-> up.entries[i][1]],
                                 "cors-received-headers")
    IN  HeadersSet(
            HeadersSet(setupCORSHeaders(req, up.headers),
                       "access-control-expose-headers", JoinWith(exposedHeaders, ",")),
            "cors-received-headers", JSONstringify(ObjectAssign(<<>>, up.entries)))

RelayResponse(req, up, body) ==
    NewResponse(body, up.status, up.statusText, RelayHeaders(req, up))

-----------------------------------------------------------------------------
(* The handler's synchronous steps over the inputs of the model, each      *)
(* evaluated once.                                                         *)

configOf == [e \in Envs \cup ConfigEnvs |-> getConfig(e)]

admittedOf ==
    [e \in Envs \cup ConfigEnvs |-> [q \in AllSearches |-> [o \in Origins |->
        Admitted(targetUrlOf[q], o, configOf[e])]]]

\* The requests whose admission reaches the construction of the outbound
\* request.
Relayable ==
    {r \in Requests \cup StreamRequests : r.method # "OPTIONS" /\ Truthy(targetUrlOf[r.search])}

constructsOf == [r \in Relayable |-> RequestConstructs(r, targetUrlOf[r.search])]

newRequestOf == [r \in Relayable |-> NewRequest(r, targetUrlOf[r.search])]

filteredHeadersOf == [r \in Relayable |-> filteredHeaders(r, targetUrlOf[r.search])]

fingerprintIndexOf == [t \in Targets \ {NULL} |-> fingerprintIndex(t)]

-----------------------------------------------------------------------------
(* The state machine.  The handler runs without interruption from one      *)
(* await to the next: an action is the arrival of a request and the        *)
(* handler's run to its return, its exception or its first await (the      *)
(* outbound fetch), or a resumption (the fetch settles, the body read      *)
(* settles) and the run to the next.                                       *)

NoRequest  == MakeRequest("", "", NULL, NULL, NULL, NULL, NULL)
NoUpstream == UpstreamResponse(0, "", <<>>)
NoResponse == [status |-> 0, statusText |-> "", body |-> BodyNull, headers |-> EmptyHeaders]

InitWith(envs) ==
    /\ env \in envs
    /\ pc        = [s \in Slots |-> "idle"]
    /\ request   = [s \in Slots |-> NoRequest]
    /\ targetUrl = [s \in Slots |-> NULL]
    /\ outbound  = [s \in Slots |-> <<>>]
    /\ upstream  = [s \in Slots |-> NoUpstream]
    /\ response  = [s \in Slots |-> NoResponse]
    /\ thrown    = [s \in Slots |-> NULL]

Init == InitWith(Envs)

InitConcurrent == InitWith(ConcurrentEnvs)

\* The decision of the admission gate for a request under the bindings.
Gate(req) == admittedOf[env][req.search][RequestHeader(req, "origin")]

\* The handler returns `resp` for `req`.
Return(s, req, resp) ==
    /\ pc'        = [pc EXCEPT ![s] = "done"]
    /\ request'   = [request EXCEPT ![s] = req]
    /\ targetUrl' = [targetUrl EXCEPT ![s] = targetUrlOf[req.search]]
    /\ response'  = [response EXCEPT ![s] = resp]
    /\ UNCHANGED <<env, outbound, upstream, thrown>>

\* Faulty variant: an admitted OPTIONS request is forwarded to the target.
PreflightForwarded(s, reqs) ==
    /\ pc[s] = "idle"
    /\ \E req \in reqs :
        /\ req.method = "OPTIONS"
        /\ Gate(req) # "throw"
        /\ IF Gate(req) = "true"
           THEN /\ pc'        = [pc EXCEPT ![s] = "fetch"]
                /\ request'   = [request EXCEPT ![s] = req]
                /\ targetUrl' = [targetUrl EXCEPT ![s] = targetUrlOf[req.search]]
                /\ outbound'  = [outbound EXCEPT ![s] =
                                    Append(@, [url |-> targetUrlOf[req.search],
                                               method |-> req.method,
                                               headers |-> EmptyHeaders,
                                               body |-> req.hasBody,
                                               redirect |-> "follow"])]
                /\ UNCHANGED <<env, upstream, response, thrown>>
           ELSE Return(s, req, PreflightResponse(req, FALSE))

\* An OPTIONS request: answered at once, 200 when admitted and 403 when not.
Preflight(s, reqs) ==
    /\ pc[s] = "idle"
    /\ \E req \in reqs :
        /\ req.method = "OPTIONS"
        /\ Gate(req) # "throw"
        /\ Return(s, req, PreflightResponse(req, Gate(req) = "true"))

\* Faulty variant: the fingerprints are shared between invocations, so that
\* the Referer filled in for a request in flight is sent with the next one.
RelaySharedProfile(s, reqs) ==
    /\ pc[s] = "idle"
    /\ \E req \in reqs :
        /\ req.method # "OPTIONS"
        /\ Gate(req) = "true"
        /\ constructsOf[req]
        /\ pc'        = [pc EXCEPT ![s] = "fetch"]
        /\ request'   = [request EXCEPT ![s] = req]
        /\ targetUrl' = [targetUrl EXCEPT ![s] = targetUrlOf[req.search]]
        /\ outbound'  = [outbound EXCEPT ![s] = Append(@,
                            IF \E t \in Slots \ {s} : Truthy(RequestHeader(request[t], "origin"))
                            THEN [newRequestOf[req] EXCEPT !.headers =
                                    HeadersSet(@, "referer",
                                        RequestHeader(
                                            request[CHOOSE t \in Slots \ {s} :
                                                Truthy(RequestHeader(request[t], "origin"))],
                                            "origin"))]
                            ELSE newRequestOf[req])]
        /\ UNCHANGED <<env, upstream, response, thrown>>

\* An admitted request of another method: the outbound request is built and
\* fetched, and the handler awaits the fetch.
Relay(s, reqs) ==
    /\ pc[s] = "idle"
    /\ \E req \in reqs :
        /\ req.method # "OPTIONS"
        /\ Gate(req) = "true"
        /\ constructsOf[req]
        /\ pc'        = [pc EXCEPT ![s] = "fetch"]
        /\ request'   = [request EXCEPT ![s] = req]
        /\ targetUrl' = [targetUrl EXCEPT ![s] = targetUrlOf[req.search]]
        /\ outbound'  = [outbound EXCEPT ![s] = Append(@, newRequestOf[req])]
        /\ UNCHANGED <<env, upstream, response, thrown>>

\* No target: the informational page.
InfoPage(s, reqs) ==
    /\ pc[s] = "idle"
    /\ \E req \in reqs :
        /\ req.method # "OPTIONS"
        /\ Gate(req) = "false"
        /\ ~Truthy(targetUrlOf[req.search])
        /\ Return(s, req, InfoResponse(req))

\* A target that is not admitted.
Blocked(s, reqs) ==
    /\ pc[s] = "idle"
    /\ \E req \in reqs :
        /\ req.method # "OPTIONS"
        /\ Gate(req) = "false"
        /\ Truthy(targetUrlOf[req.search])
        /\ Return(s, req, BlockedResponse(req))

\* An exception outside the try block leaves the handler.
Raise(s, req, error) ==
    /\ pc'        = [pc EXCEPT ![s] = "threw"]
    /\ request'   = [request EXCEPT ![s] = req]
    /\ targetUrl' = [targetUrl EXCEPT ![s] = targetUrlOf[req.search]]
    /\ thrown'    = [thrown EXCEPT ![s] = error]
    /\ UNCHANGED <<env, outbound, upstream, response>>

\* uri.match(pattern) raises a SyntaxError for a pattern that does not
\* compile: the gate is outside any try block.
ThrowInGate(s, reqs) ==
    /\ pc[s] = "idle"
    /\ \E req \in reqs :
        /\ Gate(req) = "throw"
        /\ Raise(s, req, "SyntaxError")

\* new Request raises a TypeError for a key of filteredHeaders that is no
\* header name: the construction is before the try block.
ThrowInNewRequest(s, reqs) ==
    /\ pc[s] = "idle"
    /\ \E req \in reqs :
        /\ req.method # "OPTIONS"
        /\ Gate(req) = "true"
        /\ ~constructsOf[req]
        /\ Raise(s, req, "TypeError")

\* response.body of the target's response: null for a null body status.
UpstreamBody(up) == IF up.status \in NullBodyStatuses THEN BodyNull ELSE BodyStream

\* The fetch resolves with the target's response.  A streamed response is
\* returned at once; otherwise the handler awaits the body.
FetchResolvesWith(s, ups) ==
    /\ pc[s] = "fetch"
    /\ \E up \in ups :
        /\ upstream' = [upstream EXCEPT ![s] = up]
        /\ IF shouldStreamResponse(up, request[s], targetUrl[s])
           THEN /\ pc'       = [pc EXCEPT ![s] = "done"]
                /\ response' = [response EXCEPT ![s] =
                                    RelayResponse(request[s], up, UpstreamBody(up))]
           ELSE /\ pc'       = [pc EXCEPT ![s] = "buffer"]
                /\ UNCHANGED response
    /\ UNCHANGED <<env, request, targetUrl, outbound, thrown>>

FetchResolves(s) == FetchResolvesWith(s, UpstreamResponses)

\* The fetch rejects: the catch block answers 502.
FetchRejects(s) ==
    /\ pc[s] = "fetch"
    /\ \E message \in TransportErrors :
        response' = [response EXCEPT ![s] = ErrorResponse(request[s], message)]
    /\ pc' = [pc EXCEPT ![s] = "done"]
    /\ UNCHANGED <<env, request, targetUrl, outbound, upstream, thrown>>

\* Faulty variant: the body read is not awaited on failure, and what was
\* read is returned under the target's status.
BodyRejectsPartial(s) ==
    /\ pc[s] = "buffer"
    /\ response' = [response EXCEPT ![s] =
                        RelayResponse(request[s], upstream[s],
                                      [kind |-> "buffer", text |-> "partial"])]
    /\ pc' = [pc EXCEPT ![s] = "done"]
    /\ UNCHANGED <<env, request, targetUrl, outbound, upstream, thrown>>

\* response.arrayBuffer() resolves: the buffered response is returned.  The
\* construction of the response is inside the try block: when it raises,
\* the catch block answers 502.
BodyResolves(s) ==
    /\ pc[s] = "buffer"
    /\ response' = [response EXCEPT ![s] =
                        IF ResponseConstructs(BodyBuffer, upstream[s].status)
                        THEN RelayResponse(request[s], upstream[s], BodyBuffer)
                        ELSE ErrorResponse(request[s], NullBodyMessage)]
    /\ pc' = [pc EXCEPT ![s] = "done"]
    /\ UNCHANGED <<env, request, targetUrl, outbound, upstream, thrown>>

\* response.arrayBuffer() rejects: the catch block answers 502.
BodyRejects(s) ==
    /\ pc[s] = "buffer"
    /\ \E message \in TransportErrors :
        response' = [response EXCEPT ![s] = ErrorResponse(request[s], message)]
    /\ pc' = [pc EXCEPT ![s] = "done"]
    /\ UNCHANGED <<env, request, targetUrl, outbound, upstream, thrown>>

\* The invocation is over (the response or the failure went to the
\* runtime); its locals are gone.
Finish(s) ==
    /\ pc[s] \in {"done", "threw"}
    /\ pc'        = [pc EXCEPT ![s] = "idle"]
    /\ request'   = [request EXCEPT ![s] = NoRequest]
    /\ targetUrl' = [targetUrl EXCEPT ![s] = NULL]
    /\ outbound'  = [outbound EXCEPT ![s] = <<>>]
    /\ upstream'  = [upstream EXCEPT ![s] = NoUpstream]
    /\ response'  = [response EXCEPT ![s] = NoResponse]
    /\ thrown'    = [thrown EXCEPT ![s] = NULL]
    /\ UNCHANGED env

\* One request at a time, over all the requests of the model.
Next ==
    \/ Preflight(1, Requests)
    \/ Relay(1, Requests)
    \/ InfoPage(1, Requests)
    \/ Blocked(1, Requests)
    \/ ThrowInGate(1, Requests)
    \/ ThrowInNewRequest(1, Requests)
    \/ FetchResolves(1)
    \/ FetchRejects(1)
    \/ BodyResolves(1)
    \/ BodyRejects(1)
    \/ Finish(1)

Spec == Init /\ [][Next]_vars

\* Two invocations interleaved at their awaits.
NextConcurrent ==
    \E s \in Slots :
        \/ Preflight(s, ConcurrentRequests)
        \/ Relay(s, ConcurrentRequests)
        \/ InfoPage(s, ConcurrentRequests)
        \/ Blocked(s, ConcurrentRequests)
        \/ ThrowInGate(s, ConcurrentRequests)
        \/ ThrowInNewRequest(s, ConcurrentRequests)
        \/ FetchResolves(s)
        \/ FetchRejects(s)
        \/ BodyResolves(s)
        \/ BodyRejects(s)
        \/ Finish(s)

SpecConcurrent == InitConcurrent /\ [][NextConcurrent]_vars

\* The relay on its own, under the default configuration, over the requests
\* and the responses of the streaming decision.
NextStream ==
    \/ Relay(1, StreamRequests)
    \/ FetchResolvesWith(1, StreamUpstreams)
    \/ FetchRejects(1)
    \/ BodyResolves(1)
    \/ BodyRejects(1)
    \/ Finish(1)

\* The handler over the bindings of configuration loading.
NextConfig ==
    \/ Preflight(1, ConfigRequests)
    \/ Relay(1, ConfigRequests)
    \/ InfoPage(1, ConfigRequests)
    \/ Blocked(1, ConfigRequests)
    \/ FetchResolves(1)
    \/ FetchRejects(1)
    \/ BodyResolves(1)
    \/ BodyRejects(1)
    \/ Finish(1)

SpecConfig == InitWith(ConfigEnvs) /\ [][NextConfig]_vars

SpecStream ==
    InitWith({[BLACKLIST_URLS |-> NULL, WHITELIST_ORIGINS |-> NULL]}) /\ [][NextStream]_vars

\* Target resolution on its own, in its two steps, over a wider range of
\* query strings: the candidate is extracted from the query string, then
\* validated and normalized.
Extract(s) ==
    /\ pc[s] = "idle"
    /\ \E q \in ResolveSearches :
        /\ request'   = [request EXCEPT ![s] =
                            MakeRequest("GET", q, NULL, NULL, NULL, NULL, NULL)]
        /\ targetUrl' = [targetUrl EXCEPT ![s] = candidateOf[q]]
    /\ pc' = [pc EXCEPT ![s] = "extracted"]
    /\ UNCHANGED <<env, outbound, upstream, response, thrown>>

Normalize(s) ==
    /\ pc[s] = "extracted"
    /\ targetUrl' = [targetUrl EXCEPT ![s] = normalizedOf[targetUrl[s]]]
    /\ pc' = [pc EXCEPT ![s] = "resolved"]
    /\ UNCHANGED <<env, request, outbound, upstream, response, thrown>>

Forget(s) ==
    /\ pc[s] = "resolved"
    /\ pc'        = [pc EXCEPT ![s] = "idle"]
    /\ request'   = [request EXCEPT ![s] = NoRequest]
    /\ targetUrl' = [targetUrl EXCEPT ![s] = NULL]
    /\ UNCHANGED <<env, outbound, upstream, response, thrown>>

InitResolve == InitWith({[BLACKLIST_URLS |-> NULL, WHITELIST_ORIGINS |-> NULL]})

NextResolve ==
    \E s \in Slots :
        \/ Extract(s)
        \/ Normalize(s)
        \/ Forget(s)

SpecResolve == InitResolve /\ [][NextResolve]_vars

-----------------------------------------------------------------------------
(* Properties.  What a property says of a request it says of every         *)
(* invocation in progress: request[s] is the request, targetUrl[s] its     *)
(* resolved target, and the invocation has answered when pc[s] = "done".   *)

config == configOf[env]

originHeader(s) == RequestHeader(request[s], "origin")

ResponseHeader(s, name) == HeadersGet(response[s].headers, name)

Answered(s) == pc[s] = "done"

\* uri matches at least one pattern of the listing.
MatchesAny(uri, listing) ==
    \E i \in 1..Len(listing) : Matches(uri, listing[i])

Blacklisted(s) == MatchesAny(targetUrl[s], config.blacklistUrls)

OriginRefused(s) ==
    originHeader(s) # NULL /\ ~MatchesAny(originHeader(s), config.whitelistOrigins)

\* The response carries the CORS headers computed from the request.
CarriesCORS(s) ==
    LET cors == setupCORSHeaders(request[s], EmptyHeaders) IN
    \A n \in DOMAIN cors : ResponseHeader(s, n) = cors[n]

\* The response relays the target's response.
Relayed(s) ==
    /\ Answered(s)
    /\ upstream[s] # NoUpstream
    /\ response[s].body.kind # "text"

\* C1: an outbound request is issued only for an admitted request: whenever
\* an invocation has called fetch, its target is resolved, the target matches
\* no blacklist pattern and the Origin header is absent or matches a
\* whitelist pattern; in every interleaving of two invocations.
C1_FetchOnlyWhenAdmitted ==
    \A s \in Slots :
        outbound[s] # <<>> =>
            /\ Truthy(targetUrl[s])
            /\ \A i \in 1..Len(outbound[s]) : outbound[s][i].url = targetUrl[s]
            /\ ~Blacklisted(s)
            /\ (originHeader(s) = NULL
                \/ MatchesAny(originHeader(s), config.whitelistOrigins))

\* Two invocations await their targets at once, one of them with an Origin
\* header, under a whitelist that is not the default.
C1_Witness ==
    /\ pc[1] = "fetch" /\ pc[2] = "buffer"
    /\ originHeader(1) # NULL /\ originHeader(2) = NULL
    /\ env.BLACKLIST_URLS = TxtBlacklist
    /\ outbound[1] # <<>> /\ outbound[2] # <<>>

\* C2: for an OPTIONS request no outbound request is issued, the handler
\* never awaits a fetch or a body, and the response has no body.
C2_PreflightNeverForwarded ==
    \A s \in Slots :
        (pc[s] # "idle" /\ request[s].method = "OPTIONS") =>
            /\ outbound[s] = <<>>
            /\ pc[s] \in {"done", "threw"}
            /\ upstream[s] = NoUpstream
            /\ (Answered(s) => response[s].body = BodyNull)

\* An admitted preflight has been answered.
C2_Witness ==
    /\ Answered(1)
    /\ request[1].method = "OPTIONS"
    /\ Truthy(targetUrl[1]) /\ ~Blacklisted(1) /\ ~OriginRefused(1)
    /\ response[1].status = 200

C5_AsStated ==
    \A s \in Slots : pc[s] # "threw" /\ thrown[s] = NULL

\* C6: when the fetch of an admitted request fails, the response is a 502
\* whose plain-text body contains the failure's message and which carries the
\* CORS headers computed from the request; no other fetch is issued for the
\* request.
FetchFailed(s) ==
    Answered(s) /\ outbound[s] # <<>> /\ upstream[s] = NoUpstream

C7_AsStated ==
    \A s \in Slots :
        Answered(s) =>
            ResponseHeader(s, "access-control-allow-origin") =
                (IF originHeader(s) # NULL THEN originHeader(s) ELSE "*")

\* C7: every response carries Access-Control-Allow-Origin, equal to the
\* Origin header when the request has one that is not empty and to *
\* otherwise (an empty Origin header included); on the relay path the
\* target's value of the header does not survive.
C7_AllowOrigin ==
    \A s \in Slots :
        Answered(s) =>
            ResponseHeader(s, "access-control-allow-origin") =
                (IF Truthy(originHeader(s)) THEN originHeader(s) ELSE "*")

\* A relayed response whose target sent Access-Control-Allow-Origin.
C7_Witness ==
    /\ Relayed(1)
    /\ HeadersGet(upstream[1].headers, "access-control-allow-origin") = "https://other.test"
    /\ originHeader(1) = "https://app.test"

\* C8 as the specification states it: the response to a request without an
\* Origin header, on every path, has no Access-Control-Allow-Credentials
\* header.
C8_AsStated ==
    \A s \in Slots :
        (Answered(s) /\ originHeader(s) = NULL) =>
            ResponseHeader(s, "access-control-allow-credentials") = NULL

\* C9 as the specification states it: every response to an OPTIONS request
\* has Access-Control-Max-Age: 86400.
C9_AsStated ==
    \A s \in Slots :
        (Answered(s) /\ request[s].method = "OPTIONS") =>
            ResponseHeader(s, "access-control-max-age") = "86400"

\* C9: the response to an OPTIONS request has Access-Control-Max-Age: 86400
\* when it is the 200 of an admitted preflight and no such header when it is
\* the 403 of a refused one; the response to a request of another method has
\* the header only as the target sent it, on the relay path.
C9_MaxAge ==
    \A s \in Slots :
        Answered(s) =>
            IF request[s].method = "OPTIONS"
            THEN /\ response[s].status \in {200, 403}
                 /\ ResponseHeader(s, "access-control-max-age") =
                        (IF response[s].status = 200 THEN "86400" ELSE NULL)
            ELSE ResponseHeader(s, "access-control-max-age") =
                    (IF Relayed(s)
                     THEN HeadersGet(upstream[s].headers, "access-control-max-age")
                     ELSE NULL)

\* A refused preflight has been answered.
C9_Witness ==
    /\ Answered(1)
    /\ request[1].method = "OPTIONS"
    /\ response[1].status = 403
    /\ Truthy(targetUrl[1])

\* The requests of C10: OPTIONS, a resolved target that matches no blacklist
\* pattern, an Origin that is absent or matches a whitelist pattern.
AdmittedPreflight(s) ==
    /\ Answered(s)
    /\ request[s].method = "OPTIONS"
    /\ Truthy(targetUrl[s])
    /\ ~Blacklisted(s)
    /\ ~OriginRefused(s)

\* C10 as the specification states it: the 200 of an admitted OPTIONS request
\* echoes Access-Control-Request-Method and Access-Control-Request-Headers
\* when the request has them and has the default lists otherwise.
C10_AsStated ==
    \A s \in Slots :
        AdmittedPreflight(s) =>
            LET requestMethod    == RequestHeader(request[s], "access-control-request-method")
                requestedHeaders == RequestHeader(request[s], "access-control-request-headers")
            IN  /\ response[s].status = 200
                /\ ResponseHeader(s, "access-control-allow-methods") =
                       (IF requestMethod # NULL THEN requestMethod ELSE DefaultAllowMethods)
                /\ ResponseHeader(s, "access-control-allow-headers") =
                       (IF requestedHeaders # NULL THEN requestedHeaders
                        ELSE DefaultAllowHeaders)

\* C10: the 200 of an admitted OPTIONS request echoes
\* Access-Control-Request-Method and Access-Control-Request-Headers when the
\* request has them with a value that is not empty, and has the default list
\* for each that is absent or empty.
C10_AllowLists ==
    \A s \in Slots :
        AdmittedPreflight(s) =>
            LET requestMethod    == RequestHeader(request[s], "access-control-request-method")
                requestedHeaders == RequestHeader(request[s], "access-control-request-headers")
            IN  /\ response[s].status = 200
                /\ ResponseHeader(s, "access-control-allow-methods") =
                       (IF Truthy(requestMethod) THEN requestMethod ELSE DefaultAllowMethods)
                /\ ResponseHeader(s, "access-control-allow-headers") =
                       (IF Truthy(requestedHeaders) THEN requestedHeaders
                        ELSE DefaultAllowHeaders)

\* An admitted preflight that names a method and no headers.
C10_Witness ==
    /\ AdmittedPreflight(1)
    /\ RequestHeader(request[1], "access-control-request-method") = "PUT"
    /\ RequestHeader(request[1], "access-control-request-headers") = NULL
    /\ originHeader(1) = "https://app.test"

\* The value an x-cors-headers override gives the header `name` (compared
\* without regard to letter case, as the target sees it), or null.
overrideOf ==
    [text \in CustomHeaderTexts \cup {TxtAgent} |->
        HeadersOf(CustomEntries(ParseCustomHeaders(text)))]

OverrideValue(req, name) ==
    HeadersGet(overrideOf[RequestHeader(req, "x-cors-headers")], name)

\* C11 as the specification states it: of a header that the fingerprint
\* profile defines (User-Agent, Accept), the target receives the override's
\* value alone when an override supplies it, and otherwise the inbound
\* request's value alone when the inbound request supplies it; the profile's
\* value is replaced, never combined with the other.
C11_AsStated ==
    \A s \in Slots : \A i \in 1..Len(outbound[s]) :
        \A name \in {"accept", "user-agent"} :
            IF OverrideValue(request[s], name) # NULL
            THEN HeadersGet(outbound[s][i].headers, name) = OverrideValue(request[s], name)
            ELSE RequestHeader(request[s], name) # NULL =>
                    HeadersGet(outbound[s][i].headers, name) = RequestHeader(request[s], name)

\* The value the selected fingerprint profile gives the header `name`, or
\* null.
profileHeadersOf ==
    [origin \in Origins |-> [index \in 0..3 |->
        HeadersOf(browserFingerprints(
                      IF Truthy(origin) THEN origin ELSE "https://www.google.com/",
                      IF Truthy(origin) THEN "cross-site" ELSE "none")[index + 1])]]

ProfileValue(s, name) ==
    HeadersGet(profileHeadersOf[originHeader(s)][fingerprintIndexOf[targetUrl[s]]], name)

\* The inbound header names of the model that start with origin, referer,
\* cf-, x-forw or x-cors-headers.
excludedNames ==
    {"cf-connecting-ip", "origin", "referer", "x-cors-headers", "x-forwarded-for"}

\* The value of the key `key` (a literal, case-sensitive key) in the header
\* object the outbound request of invocation s was built from, or null.
FilteredValue(s, key) ==
    LET fh == filteredHeadersOf[request[s]]
        I  == {k \in 1..Len(fh) : fh[k][1] = key}
    IN  IF I = {} THEN NULL ELSE fh[Max(I)][2]

\* C12: of the headers the inbound request sends, one whose name starts with
\* origin, referer, cf-, x-forw or x-cors-headers is not copied into the
\* outbound header set: the target receives under that name only what an
\* override or the fingerprint profile supplies; every other one is copied
\* into the outbound header set under its name with its value.
C12_Passthrough ==
    \A s \in Slots :
        outbound[s] # <<>> =>
            \A name \in InboundHeaderNames :
                RequestHeader(request[s], name) # NULL =>
                    IF name \in excludedNames
                    THEN /\ FilteredValue(s, name) = NULL
                         /\ \A i \in 1..Len(outbound[s]) :
                                HeadersGet(outbound[s][i].headers, name) =
                                    (IF OverrideValue(request[s], name) # NULL
                                     THEN OverrideValue(request[s], name)
                                     ELSE ProfileValue(s, name))
                    ELSE FilteredValue(s, name) = RequestHeader(request[s], name)

\* A request that came through the edge with Origin, Referer, cf-connecting-ip,
\* x-forwarded-for and an application header has been forwarded: the target
\* receives the application header, no cf-connecting-ip, and the Origin only
\* as the profile's Referer.
C12_Witness ==
    /\ pc[1] = "fetch"
    /\ originHeader(1) = "https://app.test"
    /\ RequestHeader(request[1], "cf-connecting-ip") # NULL
    /\ RequestHeader(request[1], "referer") = "https://app.test/page"
    /\ RequestHeader(request[1], "x-cors-headers") = NULL
    /\ HeadersGet(outbound[1][1].headers, "x-request-id") = "req-1"
    /\ HeadersGet(outbound[1][1].headers, "cf-connecting-ip") = NULL
    /\ HeadersGet(outbound[1][1].headers, "x-forwarded-for") = NULL
    /\ HeadersGet(outbound[1][1].headers, "origin") = NULL
    /\ HeadersGet(outbound[1][1].headers, "referer") = "https://app.test"

\* Invocation s is handling the request of invocation t with an x-cors-headers
\* value that is not JSON in the place of no x-cors-headers header.
MalformedTwin(s, t) ==
    /\ pc[s] # "idle" /\ pc[t] # "idle"
    /\ RequestHeader(request[s], "x-cors-headers") = TxtNotJson
    /\ request[t] = [request[s] EXCEPT !.headers["x-cors-headers"] = NULL]

\* The fetch, or the reading of the body, of invocation s has failed.
TransportFailed(s) ==
    Answered(s) /\ outbound[s] # <<>> /\ response[s].body.kind = "text"

\* C13: a request whose x-cors-headers value is not JSON is processed as the
\* same request without the header: it passes or fails admission alike, the
\* same outbound request is built, no exception is raised that the other
\* does not raise, and when the target behaves alike for both the responses
\* have the same status and the same headers.
C13_MalformedIgnored ==
    \A s, t \in Slots :
        MalformedTwin(s, t) =>
            /\ outbound[s] = outbound[t]
            /\ thrown[s] = thrown[t]
            /\ (Answered(s) /\ Answered(t) /\ upstream[s] = upstream[t]
                    /\ (TransportFailed(s) <=> TransportFailed(t)))
                => /\ response[s].status = response[t].status
                   /\ response[s].headers = response[t].headers

\* Both requests were admitted and relayed, the target answering both alike.
C13_Witness ==
    /\ MalformedTwin(1, 2)
    /\ Relayed(1) /\ Relayed(2)
    /\ upstream[1] = upstream[2]
    /\ response[1].status = 200
    /\ originHeader(1) = "https://evil.test"

\* The User-Agent of each of the four fingerprints, by index.
userAgentOf == [index \in 0..3 |-> profileHeadersOf[NULL][index]["user-agent"]]

\* The User-Agent the target of invocation s receives.
SentUserAgent(s) == HeadersGet(outbound[s][1].headers, "user-agent")

\* C14: the fingerprint is selected by the target alone.  For every outbound
\* request whose User-Agent comes from the fingerprint, it is the User-Agent
\* of one of the four fingerprints, the one at the index computed from the
\* target, and two invocations with the same target send the same one,
\* whatever their methods, headers and Origins, the configuration and the
\* interleaving.
C14_SelectionByTarget ==
    \A s, t \in Slots :
        (outbound[s] # <<>> /\ outbound[t] # <<>>) =>
            /\ fingerprintIndexOf[targetUrl[s]] \in 0..3
            /\ SentUserAgent(s) = userAgentOf[fingerprintIndexOf[targetUrl[s]]]
            /\ targetUrl[s] = targetUrl[t] => SentUserAgent(s) = SentUserAgent(t)

\* Two invocations for the same target, of different methods and with and
\* without an Origin, await their fetches under a blacklist that is set.
C14_Witness ==
    /\ pc[1] = "fetch" /\ pc[2] = "fetch"
    /\ targetUrl[1] = targetUrl[2]
    /\ request[1].method = "POST" /\ request[2].method = "GET"
    /\ originHeader(1) = NULL /\ originHeader(2) = "https://evil.test"
    /\ env.BLACKLIST_URLS = TxtBlacklist
    /\ SentUserAgent(1) = SentUserAgent(2)

\* The hash the specification describes: h := h * 31 + charCode from 0, cut
\* to a 32-bit signed integer after every step.
WrappedStep(hash, char) ==
    ToInt32(Limbs(hash.hi * 31, hash.lo * 31 + charCodeAt(char)))

RECURSIVE WrappedRange(_, _, _, _)
WrappedRange(s, a, b, hash) ==
    IF a > b THEN hash
    ELSE IF a = b THEN WrappedStep(hash, SubSeq(s, a, a))
    ELSE LET mid  == (a + b) \div 2
             half == WrappedRange(s, a, mid, hash)
         IN  IF half.lo \in 0..65535 THEN WrappedRange(s, mid + 1, b, half) ELSE half

wrappedIndexOf ==
    [t \in Targets \ {NULL} |->
        AbsMod4(WrappedRange(t, 1, Len(t), [hi |-> 0, lo |-> 0]))]

\* C15 as the specification states it: for every target for which a
\* fingerprint is selected, the index the code computes equals |h| mod 4 for
\* the hash h that is wrapped to 32 bits after every step.
C15_AsStated ==
    \A s \in Slots :
        outbound[s] # <<>> =>
            fingerprintIndexOf[targetUrl[s]] = wrappedIndexOf[targetUrl[s]]

\* What new URL gives for https:// followed by each candidate.
prependedOf ==
    [c \in DOMAIN normalizedOf |-> IF Truthy(c) THEN URLparse("https://" \o c)
                                   ELSE [ok |-> FALSE, href |-> ""]]

\* No http:// or https:// at the start of each candidate.
schemelessOf == [c \in DOMAIN normalizedOf |-> Truthy(c) /\ ~LooksLikeHttpUrl(c)]

\* C16: a candidate that does not begin with http:// or https:// (in any
\* letter case) is resolved as https:// followed by the candidate: to the
\* href of that URL, or to null when that is no URL.  api.example.com/data
\* resolves to https://api.example.com/data, from the url parameter and from
\* the legacy form alike.
C16_SchemePrepended ==
    \A s \in Slots :
        pc[s] = "resolved" =>
            LET candidate == candidateOf[request[s].search] IN
            /\ schemelessOf[candidate] =>
                   targetUrl[s] = (IF prependedOf[candidate].ok
                                   THEN prependedOf[candidate].href ELSE NULL)
            /\ request[s].search \in {"?url=api.example.com/data", "?api.example.com/data"} =>
                   targetUrl[s] = "https://api.example.com/data"

\* api.example.com/data has been resolved from both forms.
C16_Witness ==
    /\ pc[1] = "resolved" /\ pc[2] = "resolved"
    /\ request[1].search = "?url=api.example.com/data"
    /\ request[2].search = "?api.example.com/data"
    /\ targetUrl[1] = "https://api.example.com/data"
    /\ targetUrl[2] = "https://api.example.com/data"

\* C17: once resolved, the target is null or begins with http:// or
\* https://, whatever the query string; so does the URL of every outbound
\* request.
HasHttpScheme(url) == StartsWith(url, "http://") \/ StartsWith(url, "https://")

C17_HttpScheme ==
    \A s \in Slots :
        /\ pc[s] \notin {"idle", "extracted"} =>
               (targetUrl[s] = NULL \/ HasHttpScheme(targetUrl[s]))
        /\ \A i \in 1..Len(outbound[s]) : HasHttpScheme(outbound[s][i].url)

\* A candidate with another scheme and a candidate written in capitals have
\* been resolved.
C17_Witness ==
    /\ pc[1] = "resolved" /\ pc[2] = "resolved"
    /\ request[1].search = "?url=ftp://example.com/a"
    /\ targetUrl[1] = "https://ftp//example.com/a"
    /\ request[2].search = "?url=HTTPS://Example.COM/A"
    /\ targetUrl[2] = "https://example.com/A"

\* The query string ?url=<encodeURIComponent(u)> of each canonical URL, and
\* what new URL makes of each.
encodedSearchOf == [u \in CanonicalUrls |-> "?url=" \o encodeURIComponent(u)]

hrefOf == [u \in CanonicalUrls |-> URLparse(u)]

\* C18: for every URL u in canonical form (new URL(u).href is u), the query
\* string url= followed by the percent-encoding of u resolves to u.
C18_RoundTrip ==
    \A s \in Slots : \A u \in CanonicalUrls :
        /\ hrefOf[u].ok /\ hrefOf[u].href = u
        /\ (pc[s] = "resolved" /\ request[s].search = encodedSearchOf[u]) =>
               targetUrl[s] = u

\* A URL whose own query holds &, =, % has made the round trip.
C18_Witness ==
    /\ pc[1] = "resolved"
    /\ request[1].search = "?url=https%3A%2F%2Fexample.com%2Fs%3Fq%3D100%2525%26r%3D%2541"
    /\ request[1].search = encodedSearchOf["https://example.com/s?q=100%25&r=%41"]
    /\ targetUrl[1] = "https://example.com/s?q=100%25&r=%41"

\* C19 as the specification states it: a target written the same way after
\* the ? of the legacy form and after ?url= resolves to the same target URL.
C19_AsStated ==
    \A s, t \in Slots : \A u \in WrittenUrls :
        (/\ pc[s] = "resolved" /\ pc[t] = "resolved"
         /\ request[s].search = "?" \o u
         /\ request[t].search = "?url=" \o u) =>
            targetUrl[s] = targetUrl[t]

\* Invocation s is handling the request of invocation t with a target
\* candidate that is no URL in the place of an empty query string.
UnparseableTwin(s, t) ==
    /\ pc[s] # "idle" /\ pc[t] # "idle"
    /\ request[s].search = "?url=http://"
    /\ request[t] = [request[s] EXCEPT !.search = ""]

\* C20: a request whose target candidate is no URL is handled as the same
\* request with an empty query string: no target is resolved and no outbound
\* request is issued for either, neither raises, and the responses have the
\* same status and the same headers, the status being 200 with the
\* informational page when the method is not OPTIONS.
C20_InvalidAsNoTarget ==
    \A s, t \in Slots :
        UnparseableTwin(s, t) =>
            /\ targetUrl[s] = NULL /\ targetUrl[t] = NULL
            /\ outbound[s] = <<>> /\ outbound[t] = <<>>
            /\ Answered(s) /\ Answered(t)
            /\ response[s].status = response[t].status
            /\ response[s].headers = response[t].headers
            /\ request[s].method # "OPTIONS" =>
                   /\ response[s].status = 200
                   /\ response[s].body = BodyText(InfoText)
                   /\ CarriesCORS(s)

\* A GET with a candidate that is no URL, and the same GET with an empty
\* query string, both from an Origin that the whitelist refuses.
C20_Witness ==
    /\ UnparseableTwin(1, 2)
    /\ request[1].method = "GET"
    /\ originHeader(1) = "https://evil.test"
    /\ env.WHITELIST_ORIGINS = TxtWhitelist
    /\ response[1].status = 200 /\ response[2].status = 200

-----------------------------------------------------------------------------
(* C21: the streaming decision *)

\* The target has answered the request in slot s.
Decided(s) == upstream[s] # NoUpstream

\* The response in slot s was returned with the target's body as a stream.
Streamed(s) == Answered(s) /\ response[s].body = BodyStream

UpstreamHeader(s, name) == OrEmpty(HeadersGet(upstream[s].headers, name))

\* One of the six conditions the specification lists.
ListedStreamSignal(s) ==
    \/ Includes(UpstreamHeader(s, "content-type"), "text/event-stream")
    \/ Includes(ToLowerCase(UpstreamHeader(s, "transfer-encoding")), "chunked")
    \/ Includes(OrEmpty(RequestHeader(request[s], "accept")), "text/event-stream")
    \/ targetUrl[s] \in {"https://example.com/sse?stream=true",
                         "https://example.com/feed?stream=1"}
    \/ Includes(UpstreamHeader(s, "content-type"), "application/x-ndjson")
    \/ /\ Includes(UpstreamHeader(s, "content-type"), "text/plain")
       /\ Includes(ToLowerCase(UpstreamHeader(s, "transfer-encoding")), "chunked")

\* C21 as stated: a request of a method other than OPTIONS is streamed if and
\* only if one of the six listed conditions holds; no other attribute of the
\* response or the request makes the decision true.
C21_AsStated ==
    \A s \in Slots : Decided(s) => (Streamed(s) <=> ListedStreamSignal(s))

\* C21: a request of a method other than OPTIONS is streamed if and only if
\* one of the six listed conditions holds or the response's Content-Encoding
\* contains "chunked"; in particular an application/json response with
\* neither chunked encoding is not streamed unless the request asks for it.
C21_StreamingDecision ==
    \A s \in Slots :
        Decided(s) =>
            (Streamed(s) <=> \/ ListedStreamSignal(s)
                             \/ Includes(UpstreamHeader(s, "content-encoding"), "chunked"))

\* An application/json response with Content-Encoding: chunked and none of
\* the six listed conditions is streamed.
C21_Witness ==
    /\ Decided(1)
    /\ Streamed(1)
    /\ ~ListedStreamSignal(1)
    /\ UpstreamHeader(1, "content-type") = "application/json"
    /\ UpstreamHeader(1, "content-encoding") = "chunked"

-----------------------------------------------------------------------------
(* C22: Access-Control-Expose-Headers and cors-received-headers *)

\* The header names of the target's response, and the last value the target
\* sent under a name.
ReceivedNames(s) == {upstream[s].entries[i][1] : i \in 1..Len(upstream[s].entries)}

ReceivedValue(s, name) ==
    LET last == CHOOSE i \in 1..Len(upstream[s].entries) :
                    /\ upstream[s].entries[i][1] = name
                    /\ \A j \in (i + 1)..Len(upstream[s].entries) :
                            upstream[s].entries[j][1] # name
    IN  upstream[s].entries[last][2]

\* The names Access-Control-Expose-Headers lists.
ExposedNames(s) ==
    LET listed == Split(ResponseHeader(s, "access-control-expose-headers"), ",")
    IN  {listed[i] : i \in 1..Len(listed)}

\* The members of the JSON object in cors-received-headers, as texts.
ReceivedMembers(s) ==
    LET json    == ResponseHeader(s, "cors-received-headers")
        members == Split(SubSeq(json, 2, Len(json) - 1), ",")
    IN  {members[i] : i \in 1..Len(members)}

-----------------------------------------------------------------------------
(* C23: the status of a relayed response *)

\* The read of the target's body has failed.
BodyReadFailed(s) ==
    /\ Decided(s)
    /\ \E message \in TransportErrors :
            response[s].body = BodyText("Error fetching target URL: " \o message)

\* C23 as stated: for every admitted request of a method other than OPTIONS
\* whose fetch has returned a response (and whose body was read, when it is
\* buffered), the status returned is the target's status; 502 is synthesized
\* only when the relay fails.
C23_AsStated ==
    \A s \in Slots :
        (Answered(s) /\ Decided(s) /\ ~BodyReadFailed(s)) =>
            response[s].status = upstream[s].status

\* The target answers 204 and the body is buffered: the caller is answered
\* 502.
C23_Divergence ==
    /\ Answered(1)
    /\ upstream[1].status = 204
    /\ ~BodyReadFailed(1)
    /\ response[1].status = 502

-----------------------------------------------------------------------------
(* C24: configuration loading *)

\* The variable is set to a text that is not JSON or not a JSON array.
MalformedList(raw) == raw \in {TxtNotJson, TxtObjNotArray, TxtJsonNull, TxtJsonString}

\* C24: each setting of the configuration is loaded on its own: the blacklist is the BLACKLIST_URLS array, and [] when the variable is
\* unset, not JSON or not an array; the whitelist is the WHITELIST_ORIGINS
\* array, and [".*"] when the variable is unset, not JSON or not an array,
\* whatever the other variable holds; with both at their defaults every
\* request with a target is admitted, with or without an Origin.
C24_ConfigDefaults ==
    /\ config.blacklistUrls =
            (IF env.BLACKLIST_URLS = TxtBlacklist THEN <<PatMalicious>> ELSE <<>>)
    /\ config.whitelistOrigins =
            (IF env.WHITELIST_ORIGINS = TxtWhitelist THEN <<PatAppOrigin>> ELSE <<PatAny>>)
    /\ \A s \in Slots :
        (/\ env.BLACKLIST_URLS # TxtBlacklist
         /\ env.WHITELIST_ORIGINS # TxtWhitelist
         /\ pc[s] # "idle"
         /\ targetUrl[s] # NULL)
        => /\ response[s].status # 403
           /\ request[s].method # "OPTIONS" => Len(outbound[s]) = 1
           /\ (request[s].method = "OPTIONS" /\ Answered(s)) => response[s].status = 200

\* Both variables are malformed, each in its own way, and a request for a
\* target the well-formed blacklist names, from an Origin the well-formed
\* whitelist refuses, has been relayed.
C24_Witness ==
    /\ env.BLACKLIST_URLS = TxtObjNotArray
    /\ env.WHITELIST_ORIGINS = TxtNotJson
    /\ MalformedList(env.BLACKLIST_URLS) /\ MalformedList(env.WHITELIST_ORIGINS)
    /\ targetUrl[1] = "https://malicious.com/x"
    /\ originHeader(1) = "https://evil.test"
    /\ Relayed(1)

\* A malformed blacklist beside a well-formed whitelist: the whitelist is
\* still enforced.
C24_WitnessIndependent ==
    /\ MalformedList(env.BLACKLIST_URLS)
    /\ env.WHITELIST_ORIGINS = TxtWhitelist
    /\ originHeader(1) = "https://evil.test"
    /\ targetUrl[1] = "https://malicious.com/x"
    /\ Answered(1)
    /\ response[1].status = 403

-----------------------------------------------------------------------------
(* C25: two invocations do not interact *)

\* What the handler does with `req` on its own under the bindings: the
\* outbound requests it issues, and the responses it can return once the
\* target has behaved as `up` (NoUpstream: the fetch has failed).
AloneOutbound(req) ==
    IF req.method # "OPTIONS" /\ Gate(req) = "true" /\ constructsOf[req]
    THEN <<newRequestOf[req]>>
    ELSE <<>>

AloneResponses(req, up) ==
    IF req.method = "OPTIONS" THEN {PreflightResponse(req, Gate(req) = "true")}
    ELSE IF Gate(req) = "false"
    THEN {IF Truthy(targetUrlOf[req.search]) THEN BlockedResponse(req) ELSE InfoResponse(req)}
    ELSE IF up = NoUpstream
    THEN {ErrorResponse(req, message) : message \in TransportErrors}
    ELSE IF shouldStreamResponse(up, req, targetUrlOf[req.search])
    THEN {RelayResponse(req, up, UpstreamBody(up))}
    ELSE {ErrorResponse(req, message) : message \in TransportErrors}
         \cup {IF up.status \in NullBodyStatuses THEN ErrorResponse(req, NullBodyMessage)
               ELSE RelayResponse(req, up, BodyBuffer)}

\* C25: under every interleaving of two invocations, each invocation's
\* target, outbound request and response are those of its request handled
\* alone under the same bindings and the same behaviour of the target, and
\* the Referer sent to the target of one is never the Origin of the other.
C25_NoInterference ==
    \A s \in Slots :
        pc[s] # "idle" =>
            /\ targetUrl[s] = targetUrlOf[request[s].search]
            /\ pc[s] # "threw" => outbound[s] = AloneOutbound(request[s])
            /\ Answered(s) => response[s] \in AloneResponses(request[s], upstream[s])
            /\ \A t \in Slots \ {s} :
                (outbound[s] # <<>> /\ pc[t] # "idle" /\ originHeader(t) # originHeader(s))
                    => HeadersGet(outbound[s][1].headers, "referer") # originHeader(t)

\* Two relayed requests in flight together, one with an Origin header and one
\* without, each answered by the target in its own way.
C25_Witness ==
    /\ Relayed(1) /\ Relayed(2)
    /\ originHeader(1) = "https://evil.test"
    /\ originHeader(2) = NULL
    /\ targetUrl[1] # targetUrl[2]
    /\ upstream[1] # upstream[2]
    /\ ResponseHeader(1, "access-control-allow-origin") = "https://evil.test"
    /\ ResponseHeader(2, "access-control-allow-origin") = "*"

-----------------------------------------------------------------------------
(* C26: one outbound fetch per request *)

\* C26 as stated: an inbound request causes exactly one outbound fetch when
\* its method is not OPTIONS and it is admitted, and none otherwise; a
\* failure of the fetch or any status of the target is answered without a
\* second attempt.
C26_AsStated ==
    \A s \in Slots :
        pc[s] # "idle" =>
            Len(outbound[s]) =
                (IF request[s].method # "OPTIONS" /\ Gate(request[s]) = "true" THEN 1 ELSE 0)

\* For a request whose outbound request is constructed the statement holds:
\* no invocation fetches twice, a request that is denied or is a preflight
\* fetches nothing, and every answer after a fetch (the relayed response or
\* the 502) follows exactly one fetch.
C26_AtMostOnce ==
    \A s \in Slots :
        /\ Len(outbound[s]) <= 1
        /\ (pc[s] # "idle" /\ (request[s].method = "OPTIONS" \/ Gate(request[s]) # "true"))
                => outbound[s] = <<>>
        /\ pc[s] \in {"fetch", "buffer"} => Len(outbound[s]) = 1
        /\ (Answered(s) /\ request[s].method # "OPTIONS" /\ Gate(request[s]) = "true")
                => Len(outbound[s]) = 1

\* An admitted GET whose outbound request cannot be constructed: the handler
\* has raised and nothing was fetched.
C26_Divergence ==
    /\ pc[1] = "threw"
    /\ request[1].method = "GET"
    /\ Gate(request[1]) = "true"
    /\ outbound[1] = <<>>

-----------------------------------------------------------------------------
(* C27: the explicit url parameter excludes the legacy form *)

\* searchParams.get("url") of each query string, evaluated once.
urlParamOf == [q \in ResolveSearches |-> ParamGet(searchParams(q), "url")]

\* C27 as stated: whenever the query string has a url parameter the candidate
\* is that parameter's value alone, so that /?url= with an empty value never
\* resolves to a target built from the text `url=`.
C27_AsStated ==
    \A s \in Slots :
        /\ (pc[s] = "extracted" /\ urlParamOf[request[s].search] # NULL)
                => targetUrl[s] = urlParamOf[request[s].search]
        /\ (pc[s] = "resolved" /\ urlParamOf[request[s].search] = "")
                => ~Truthy(targetUrl[s])

\* /?url= resolves to the target https://url=/.
C27_Divergence ==
    /\ pc[1] = "resolved"
    /\ request[1].search = "?url="
    /\ targetUrl[1] = "https://url=/"

-----------------------------------------------------------------------------
(* C28: progressive decoding of the legacy form *)

\* The query strings whose candidate comes from progressive decoding: no url
\* parameter with a value, and no reconstruction that looks like a URL.
ProgressiveSearches ==
    {q \in ResolveSearches :
        /\ Len(q) > 1
        /\ ~Truthy(ParamGet(searchParams(q), "url"))
        /\ ~LooksLikeHttpUrl(Reconstructed(searchParams(q), SubSeq(q, 2, Len(q))))}

\* The raw query string, its first decoding, and the decoding of that.
decodeLevelsOf ==
    [q \in ProgressiveSearches |->
        LET raw   == SubSeq(q, 2, Len(q))
            first == decodeURIComponent(raw)
        IN  [raw |-> raw, first |-> first, second |-> decodeURIComponent(first.value),
             urlLike |-> \/ StartsWith(ToLowerCase(raw), "http://")
                         \/ StartsWith(ToLowerCase(raw), "https://")
                         \/ StartsWith(ToLowerCase(raw), "http%3a%2f%2f")
                         \/ StartsWith(ToLowerCase(raw), "https%3a%2f%2f")]]

\* The first decoding succeeds and leaves a %, and the second one fails.
SecondDecodeFails(q) ==
    /\ decodeLevelsOf[q].first.ok
    /\ Includes(decodeLevelsOf[q].first.value, "%")
    /\ ~decodeLevelsOf[q].second.ok

\* C28 as stated: progressive decoding falls back one level at a time: when
\* the first decoding succeeds and the second fails the candidate is the
\* once-decoded string, and only when the first fails is it the raw query
\* string, whether or not the query string looks like an http(s) URL.
C28_AsStated ==
    \A s \in Slots :
        (pc[s] = "extracted" /\ request[s].search \in ProgressiveSearches) =>
            /\ SecondDecodeFails(request[s].search)
                    => targetUrl[s] = decodeLevelsOf[request[s].search].first.value
            /\ ~decodeLevelsOf[request[s].search].first.ok
                    => targetUrl[s] = decodeLevelsOf[request[s].search].raw

\* C28: progressive decoding gives a string for every query string: the
\* first decoding when it has no %, the second decoding when both succeed;
\* when the first succeeds and the second fails, the once-decoded string if
\* the raw query string begins like an http(s) URL (plain or percent-encoded)
\* and the raw query string otherwise; the raw query string when the first
\* decoding fails.
C28_ProgressiveDecoding ==
    \A s \in Slots :
        (pc[s] = "extracted" /\ request[s].search \in ProgressiveSearches) =>
            LET levels == decodeLevelsOf[request[s].search] IN
            targetUrl[s] =
                (IF ~levels.first.ok THEN levels.raw
                 ELSE IF ~Includes(levels.first.value, "%") THEN levels.first.value
                 ELSE IF levels.second.ok THEN levels.second.value
                 ELSE IF levels.urlLike THEN levels.first.value
                 ELSE levels.raw)

\* A query string that does not look like a URL, whose second decoding
\* fails: the candidate is the raw query string, not the once-decoded one.
C28_Witness ==
    /\ pc[1] = "extracted"
    /\ request[1].search = "?example.com/%25zz"
    /\ SecondDecodeFails(request[1].search)
    /\ targetUrl[1] = "example.com/%25zz"
    /\ pc[2] = "extracted"
    /\ request[2].search = "?https%3A%2F%2Fexample.com%2Fa%25zz=1"
    /\ SecondDecodeFails(request[2].search)
    /\ targetUrl[2] = "https://example.com/a%zz=1"

-----------------------------------------------------------------------------
(* C29: overrides that are JSON but no JSON object *)

\* The request of slot s without its x-cors-headers header.
WithoutOverrides(s) == [request[s] EXCEPT !.headers["x-cors-headers"] = NULL]

\* C29 as stated: when x-cors-headers parses to a JSON value that is not an
\* object (an array, a string, a number, a boolean, null), the outbound
\* header set is the one built without the header, no key being added.
C29_AsStated ==
    \A s \in Slots :
        (/\ outbound[s] # <<>>
         /\ RequestHeader(request[s], "x-cors-headers") \in {TxtArrayHdr, TxtJsonNull, TxtJsonString})
        => outbound[s][1].headers = newRequestOf[WithoutOverrides(s)].headers

\* x-cors-headers: ["a"] has put the header 0: a on the outbound request.
C29_Divergence ==
    /\ outbound[1] # <<>>
    /\ RequestHeader(request[1], "x-cors-headers") = TxtArrayHdr
    /\ HeadersGet(outbound[1][1].headers, "0") = "a"
    /\ ~HeadersHas(newRequestOf[WithoutOverrides(1)].headers, "0")

-----------------------------------------------------------------------------
(* C30: when the response is returned *)

\* One step of invocation s.
C30_Step(s) ==
    \* while the body is being read nothing has been returned
    /\ pc'[s] = "buffer" => response'[s] = NoResponse
    \* a buffered response carries the whole body under the target's status,
    \* and it is returned by the step that ends the body read
    /\ (response'[s].body.kind = "buffer" /\ response'[s] # response[s])
            => /\ pc[s] = "buffer"
               /\ response'[s].body = BodyBuffer
               /\ response'[s].status = upstream[s].status
    \* the body read ends with the whole body or with the 502
    /\ (pc[s] = "buffer" /\ pc'[s] = "done")
            => \/ response'[s].body = BodyBuffer
               \/ response'[s].status = 502 /\ response'[s].body.kind = "text"
    \* a streamed response is returned by the step in which the target's
    \* headers arrive, under the target's status
    /\ (pc[s] = "fetch" /\ pc'[s] = "done" /\ upstream'[s] # NoUpstream)
            => /\ response'[s].status = upstream'[s].status
               /\ response'[s].body \in {BodyStream, BodyNull}
    /\ (response'[s].body = BodyStream /\ response'[s] # response[s]) => pc[s] = "fetch"
    \* a response that was returned does not change
    /\ pc[s] = "done" => response'[s] \in {response[s], NoResponse}

\* C30: in buffered mode the response is returned only by the step that ends
\* the read of the target's body, with the whole body under the target's
\* status, or with the 502 when the read fails; in streaming mode the
\* response is returned under the target's status by the step in which the
\* target's headers arrive; a response that was returned is not changed.
C30_ReturnTiming == [][\A s \in Slots : C30_Step(s)]_vars

\* The target's headers arrived with status 200, the body was being
\* buffered, and its read has failed: the caller is answered 502.
C30_Witness ==
    /\ Answered(1)
    /\ BodyReadFailed(1)
    /\ upstream[1].status = 200
    /\ response[1].status = 502

\* A streamed response returned under the target's status 404.
C30_WitnessStreamed ==
    /\ Answered(1)
    /\ response[1].body = BodyStream
    /\ upstream[1].status = 404
    /\ response[1].status = 404

=============================================================================
